---- MODULE Spec2Model ----
(***************************************************************************)
(* A model of the kbin value codec (src/value.rs, src/value/array.rs), the *)
(* text XML reader (src/text_reader.rs) and the serde Deserializer         *)
(* (src/de/mod.rs, src/de/map.rs) of kbinxml-rs.                           *)
(*                                                                         *)
(* Numbers.  TLC's integers are 32 bits wide, so an element of 4 or 8      *)
(* bytes (s32, u32, s64, u64, time, and the bit pattern of a float or a    *)
(* double) is held as the sequence of its 16-bit limbs, most significant   *)
(* first, in two's complement; elements of 1 or 2 bytes are plain numbers  *)
(* in the range of their Rust type.  Text is a sequence of one-character   *)
(* strings.                                                                *)
(***************************************************************************)
EXTENDS Integers, Sequences, FiniteSets, TLC

VARIABLES
  \* ---- a call of the value codec (Value::*, ValueArray::*) ----
  pc,          \* "call": the call is set up; "done": it has returned
  op,          \* the function called
  node_type,   \* its StandardType argument
  is_array,    \* its is_array argument
  arr_count,   \* its arr_count argument (from_string)
  input,       \* its byte input
  text,        \* its text input (from_string)
  value,       \* its Value argument (to_bytes)
  result,      \* what it returned
  \* ---- a TextXmlReader (as_node_collection sets op and result as well) ----
  document,    \* the events quick_xml reads from the input, in order
  xml_reader,  \* how many of them read_event has returned
  encoding,    \* TextXmlReader::encoding
  stack,       \* TextXmlReader::stack
  \* ---- a Deserializer and the visitor that drives it ----
  read_mode,   \* Deserializer::read_mode
  node_stack,  \* Deserializer::node_stack
  first_struct,\* Deserializer::first_struct
  reader,      \* Deserializer::reader: the data buffer and its cursors
  ty,          \* the Rust type whose Deserialize impl runs next
  frames,      \* the calls of the Deserializer that wait for their visitor
  visited,     \* the values the visitors have been given, in order
  \* ---- a Node and the slice it is built from ----
  node,        \* the Node
  node_attrs   \* the attrs argument of its constructor

valuevars == <<node_type, is_array, arr_count, input, text, value>>

xmlvars == <<document, xml_reader, encoding, stack>>

devars == <<read_mode, node_stack, first_struct, reader, ty, frames, visited>>

nodevars == <<node, node_attrs>>

vars == <<pc, op, result, valuevars, xmlvars, devars, nodevars>>

\* No Node has been built.
NodeIdle ==
  /\ node = [key |-> ""]
  /\ node_attrs = <<>>

\* No TextXmlReader is at work.
XmlIdle ==
  /\ document = <<>>
  /\ xml_reader = 0
  /\ encoding = "UTF_8"
  /\ stack = <<>>

\* No Deserializer is at work.
\* Reader::new: the node buffer (the tags and identifiers of the node
\* section, in order) and the data buffer, every cursor at the start.
NewReader(nodes, data) ==
  [nodes |-> nodes, node |-> 0, last_node_type |-> [some |-> FALSE],
   data |-> data, byte |-> 0, word |-> 0, dword |-> 0]

DeIdle ==
  /\ read_mode = "Single"
  /\ node_stack = <<>>
  /\ first_struct = TRUE
  /\ reader = NewReader(<<>>, <<>>)
  /\ ty = [k |-> "none"]
  /\ frames = <<>>
  /\ visited = <<>>

(***************************************************************************)
(* Bounds of the model.                                                    *)
(***************************************************************************)
\* Raw byte inputs are at most MaxChunks whole elements plus MaxExtra bytes.
MaxChunks == 2
MaxExtra == 1

(***************************************************************************)
(* node_types: StandardType with its size and count (the on-wire length of *)
(* one value is size * count; 0 for the length-prefixed str and bin and    *)
(* for the node markers).  Ip4 is one element of 4 bytes: from_string      *)
(* treats it as a type "that is only a single count".                      *)
(***************************************************************************)
StandardType ==
  [
     S8 |-> [size |-> 1, count |-> 1],
     U8 |-> [size |-> 1, count |-> 1],
     S16 |-> [size |-> 2, count |-> 1],
     U16 |-> [size |-> 2, count |-> 1],
     S32 |-> [size |-> 4, count |-> 1],
     U32 |-> [size |-> 4, count |-> 1],
     S64 |-> [size |-> 8, count |-> 1],
     U64 |-> [size |-> 8, count |-> 1],
     Float |-> [size |-> 4, count |-> 1],
     Double |-> [size |-> 8, count |-> 1],
     Binary |-> [size |-> 1, count |-> 0],
     String |-> [size |-> 1, count |-> 0],
     Ip4 |-> [size |-> 4, count |-> 1],
     Time |-> [size |-> 4, count |-> 1],
     S8_2 |-> [size |-> 1, count |-> 2],
     U8_2 |-> [size |-> 1, count |-> 2],
     S16_2 |-> [size |-> 2, count |-> 2],
     U16_2 |-> [size |-> 2, count |-> 2],
     S32_2 |-> [size |-> 4, count |-> 2],
     U32_2 |-> [size |-> 4, count |-> 2],
     S64_2 |-> [size |-> 8, count |-> 2],
     U64_2 |-> [size |-> 8, count |-> 2],
     Float2 |-> [size |-> 4, count |-> 2],
     Double2 |-> [size |-> 8, count |-> 2],
     S8_3 |-> [size |-> 1, count |-> 3],
     U8_3 |-> [size |-> 1, count |-> 3],
     S16_3 |-> [size |-> 2, count |-> 3],
     U16_3 |-> [size |-> 2, count |-> 3],
     S32_3 |-> [size |-> 4, count |-> 3],
     U32_3 |-> [size |-> 4, count |-> 3],
     S64_3 |-> [size |-> 8, count |-> 3],
     U64_3 |-> [size |-> 8, count |-> 3],
     Float3 |-> [size |-> 4, count |-> 3],
     Double3 |-> [size |-> 8, count |-> 3],
     S8_4 |-> [size |-> 1, count |-> 4],
     U8_4 |-> [size |-> 1, count |-> 4],
     S16_4 |-> [size |-> 2, count |-> 4],
     U16_4 |-> [size |-> 2, count |-> 4],
     S32_4 |-> [size |-> 4, count |-> 4],
     U32_4 |-> [size |-> 4, count |-> 4],
     S64_4 |-> [size |-> 8, count |-> 4],
     U64_4 |-> [size |-> 8, count |-> 4],
     Float4 |-> [size |-> 4, count |-> 4],
     Double4 |-> [size |-> 8, count |-> 4],
     Vs8 |-> [size |-> 1, count |-> 16],
     Vu8 |-> [size |-> 1, count |-> 16],
     Vs16 |-> [size |-> 2, count |-> 8],
     Vu16 |-> [size |-> 2, count |-> 8],
     Boolean |-> [size |-> 1, count |-> 1],
     Boolean2 |-> [size |-> 1, count |-> 2],
     Boolean3 |-> [size |-> 1, count |-> 3],
     Boolean4 |-> [size |-> 1, count |-> 4],
     Vb |-> [size |-> 1, count |-> 16],
     NodeStart |-> [size |-> 0, count |-> 0],
     Attribute |-> [size |-> 0, count |-> 0],
     NodeEnd |-> [size |-> 0, count |-> 0],
     FileEnd |-> [size |-> 0, count |-> 0]
  ]

TypeNames == DOMAIN StandardType

\* The types whose value is size * count bytes on the wire.
FixedSizeTypes == {t \in TypeNames : StandardType[t].size * StandardType[t].count > 0}

(***************************************************************************)
(* The groups of the tuple! macro of Value, and the element type each      *)
(* byteorder method reads and writes.                                      *)
(***************************************************************************)
S8Konst == {"S8_2", "S8_3", "S8_4", "Vs8"}
U8Konst == {"U8_2", "U8_3", "U8_4", "Vu8"}
BoolKonst == {"Boolean2", "Boolean3", "Boolean4", "Vb"}

\* kind: "i" signed, "u" unsigned, "f" IEEE-754 bits; width in bytes.
MultiInner(t) ==
  CASE t \in {"S16_2", "S16_3", "S16_4", "Vs16"} -> [kind |-> "i", width |-> 2]
    [] t \in {"S32_2", "S32_3", "S32_4"} -> [kind |-> "i", width |-> 4]
    [] t \in {"S64_2", "S64_3", "S64_4"} -> [kind |-> "i", width |-> 8]
    [] t \in {"U16_2", "U16_3", "U16_4", "Vu16"} -> [kind |-> "u", width |-> 2]
    [] t \in {"U32_2", "U32_3", "U32_4"} -> [kind |-> "u", width |-> 4]
    [] t \in {"U64_2", "U64_3", "U64_4"} -> [kind |-> "u", width |-> 8]
    [] t \in {"Float2", "Float3", "Float4"} -> [kind |-> "f", width |-> 4]
    [] t \in {"Double2", "Double3", "Double4"} -> [kind |-> "f", width |-> 8]

MultiKonst ==
  {"S16_2", "S16_3", "S16_4", "Vs16", "S32_2", "S32_3", "S32_4",
   "S64_2", "S64_3", "S64_4", "U16_2", "U16_3", "U16_4", "Vu16",
   "U32_2", "U32_3", "U32_4", "U64_2", "U64_3", "U64_4",
   "Float2", "Float3", "Float4", "Double2", "Double3", "Double4"}

\* The element type of the scalar variants of Value.
ScalarInner(t) ==
  CASE t = "S8" -> [kind |-> "i", width |-> 1]
    [] t = "U8" -> [kind |-> "u", width |-> 1]
    [] t = "S16" -> [kind |-> "i", width |-> 2]
    [] t = "U16" -> [kind |-> "u", width |-> 2]
    [] t = "S32" -> [kind |-> "i", width |-> 4]
    [] t = "U32" -> [kind |-> "u", width |-> 4]
    [] t = "S64" -> [kind |-> "i", width |-> 8]
    [] t = "U64" -> [kind |-> "u", width |-> 8]
    [] t = "Time" -> [kind |-> "u", width |-> 4]
    [] t = "Float" -> [kind |-> "f", width |-> 4]
    [] t = "Double" -> [kind |-> "f", width |-> 8]

ScalarKonst ==
  {"S8", "U8", "S16", "U16", "S32", "U32", "S64", "U64", "Time", "Float", "Double"}

(***************************************************************************)
(* Sequences.                                                              *)
(***************************************************************************)
RECURSIVE Flatten(_)
Flatten(ss) == IF ss = <<>> THEN <<>> ELSE Head(ss) \o Flatten(Tail(ss))

Min(a, b) == IF a < b THEN a ELSE b

\* Mutant of Chunks: slice::chunks_exact(n), which leaves the remainder out.
ChunksExact(s, n) ==
  [k \in 1..(Len(s) \div n) |-> SubSeq(s, (k - 1) * n + 1, k * n)]

\* slice::chunks(n), n > 0: consecutive pieces of n items, the last one shorter
\* when the length is no multiple of n.
Chunks(s, n) ==
  [k \in 1..((Len(s) + n - 1) \div n) |->
     SubSeq(s, (k - 1) * n + 1, Min(k * n, Len(s)))]

(***************************************************************************)
(* byteorder, BigEndian: one element to and from its bytes.                *)
(***************************************************************************)
\* Mutant of NumToBytes: the 16-bit writes in little-endian order.
NumToBytesLittleEndian(width, n) ==
  IF width = 1 THEN <<n % 256>>
  ELSE <<n % 256, (n \div 256) % 256>>

\* `n as u8`, write_u16 / write_i16: the two's complement bytes of a number.
NumToBytes(width, n) ==
  IF width = 1 THEN <<n % 256>>
  ELSE <<(n \div 256) % 256, n % 256>>

\* Mutant of LimbsToBytes: the write method of half the width (write_u32 for
\* a u64, write_u16 for a u32), which keeps the low half only.
LimbsToBytesHalfWidth(limbs) ==
  LET low == SubSeq(limbs, Len(limbs) \div 2 + 1, Len(limbs))
  IN [k \in 1..(2 * Len(low)) |->
        IF k % 2 = 1 THEN low[(k + 1) \div 2] \div 256 ELSE low[k \div 2] % 256]

\* Mutant of LimbsToBytes: the bytes in little-endian order.
LimbsToBytesLittleEndian(limbs) ==
  Flatten([k \in 1..Len(limbs) |->
             <<limbs[Len(limbs) + 1 - k] % 256, limbs[Len(limbs) + 1 - k] \div 256>>])

\* write_u32 / write_i32 / write_u64 / write_i64 / write_f32 / write_f64.
LimbsToBytes(limbs) ==
  Flatten([k \in 1..Len(limbs) |-> <<limbs[k] \div 256, limbs[k] % 256>>])

WriteBE(inner, e) ==
  IF inner.width <= 2 THEN NumToBytes(inner.width, e) ELSE LimbsToBytes(e)

\* `b as i8`, read_u16 / read_i16.
BytesToNum(kind, width, b) ==
  LET u == IF width = 1 THEN b[1] ELSE b[1] * 256 + b[2]
      top == IF width = 1 THEN 128 ELSE 32768
  IN IF kind = "i" /\ u >= top THEN u - 2 * top ELSE u

\* read_u32 / read_i32 / read_u64 / read_i64 / read_f32 / read_f64.
BytesToLimbs(width, b) ==
  [k \in 1..(width \div 2) |-> b[2 * k - 1] * 256 + b[2 * k]]

ReadBE(inner, b) ==
  IF inner.width <= 2 THEN BytesToNum(inner.kind, inner.width, b)
  ELSE BytesToLimbs(inner.width, b)

(***************************************************************************)
(* Results.                                                                *)
(***************************************************************************)
Ok(v) == [kind |-> "Ok", value |-> v]
OkNone == [kind |-> "None"]
Err(e) == [kind |-> "Err", err |-> e]
Panic == [kind |-> "Panic"]

SizeMismatch(t, expected, got) ==
  [name |-> "SizeMismatch", node_type |-> t, expected |-> expected, got |-> got]
InvalidBooleanInput(b) == [name |-> "InvalidBooleanInput", byte |-> b]
InvalidState == [name |-> "InvalidState"]
InvalidNodeType(t) == [name |-> "InvalidNodeType", node_type |-> t]
StringParse(t) == [name |-> "StringParse", node_type |-> t]

(***************************************************************************)
(* Value.                                                                  *)
(***************************************************************************)
MkValue(konst, data) == [konst |-> konst, data |-> data]
\* Mutant of MkArray: the tag is that of the element type of a vector.
MkArrayOfElements(t, values) ==
  [konst |-> "Array", node_type |-> IF StandardType[t].count > 1 THEN "U8" ELSE "U8_2",
   data |-> values]

\* Value::Array(t, values)
MkArray(t, values) == [konst |-> "Array", node_type |-> t, data |-> values]

standard_type(v) == IF v.konst = "Array" THEN v.node_type ELSE v.konst

(***************************************************************************)
(* Value::from_standard_type                                               *)
(***************************************************************************)
NodeSize(t) == StandardType[t].size * StandardType[t].count

\* The bytes of a bool or bool vector that are neither 0x00 nor 0x01.
BadBooleans(b, count) == {i \in 1..count : b[i] \notin {0, 1}}

FirstOf(S) == CHOOSE i \in S : \A j \in S : i <= j

\* The match on node_type, for an input that is not an array.
FromStandardTypeValue(t, in) ==
  CASE t \in {"NodeStart", "NodeEnd", "FileEnd", "Attribute", "String"} -> OkNone
    [] t \in ScalarKonst ->
         IF Len(in) < ScalarInner(t).width THEN Panic
         ELSE Ok(MkValue(t, ReadBE(ScalarInner(t), SubSeq(in, 1, ScalarInner(t).width))))
    [] t = "Binary" -> Ok(MkValue("Binary", in))
    [] t = "Ip4" ->
         IF Len(in) < 4 THEN Panic ELSE Ok(MkValue("Ip4", SubSeq(in, 1, 4)))
    [] t = "Boolean" ->
         IF Len(in) < 1 THEN Panic
         ELSE IF in[1] = 0 THEN Ok(MkValue(t, FALSE))
         ELSE IF in[1] = 1 THEN Ok(MkValue(t, TRUE))
         ELSE Err(InvalidBooleanInput(in[1]))
    [] t \in S8Konst ->
         IF Len(in) < StandardType[t].count THEN Panic
         ELSE Ok(MkValue(t, [i \in 1..StandardType[t].count |-> BytesToNum("i", 1, <<in[i]>>)]))
    [] t \in U8Konst ->
         IF Len(in) < StandardType[t].count THEN Panic
         ELSE Ok(MkValue(t, SubSeq(in, 1, StandardType[t].count)))
    [] t \in BoolKonst ->
         IF Len(in) < StandardType[t].count THEN Panic
         ELSE IF BadBooleans(in, StandardType[t].count) # {}
           THEN Err(InvalidBooleanInput(in[FirstOf(BadBooleans(in, StandardType[t].count))]))
         ELSE Ok(MkValue(t, [i \in 1..StandardType[t].count |-> in[i] = 1]))
    [] t \in MultiKonst ->
         LET w == MultiInner(t).width
             count == StandardType[t].count
         IN \* read_*_into asserts that the source is as long as the target
            IF Len(in) < NodeSize(t) \/ NodeSize(t) # w * count THEN Panic
            ELSE Ok(MkValue(t, [i \in 1..count |->
                      ReadBE(MultiInner(t), SubSeq(in, (i - 1) * w + 1, i * w))]))

\* is_array = false: the size check, then the match.
FromStandardTypeSingle(t, in) ==
  IF t \notin {"String", "Binary"} /\ Len(in) # NodeSize(t)
  THEN Err(SizeMismatch(t, NodeSize(t), Len(in)))
  ELSE FromStandardTypeValue(t, in)

\* is_array = true: one value per chunk, the first failure returned.
RECURSIVE FromStandardTypeChunks(_, _, _, _)
FromStandardTypeChunks(t, chunks, i, values) ==
  IF i > Len(chunks) THEN Ok(MkArray(t, values))
  ELSE LET r == FromStandardTypeSingle(t, chunks[i])
       IN CASE r.kind = "Ok" -> FromStandardTypeChunks(t, chunks, i + 1, Append(values, r.value))
            [] r.kind = "None" -> Err(InvalidState)
            [] OTHER -> r

Value_from_standard_type(t, arr, in) ==
  IF arr
  THEN IF NodeSize(t) = 0 THEN Panic   \* chunks(0) panics
       ELSE FromStandardTypeChunks(t, Chunks(in, NodeSize(t)), 1, <<>>)
  ELSE FromStandardTypeSingle(t, in)

(***************************************************************************)
(* Value::to_bytes                                                         *)
(***************************************************************************)
RECURSIVE to_bytes_inner(_)
to_bytes_inner(v) ==
  LET k == v.konst
  IN CASE k \in ScalarKonst -> Ok(WriteBE(ScalarInner(k), v.data))
       [] k = "Binary" -> Ok(v.data)
       [] k = "Ip4" -> Ok(v.data)
       [] k = "Boolean" -> Ok(<<IF v.data THEN 1 ELSE 0>>)
       [] k = "Array" ->
            LET rs == [i \in 1..Len(v.data) |-> to_bytes_inner(v.data[i])]
                bad == {i \in 1..Len(rs) : rs[i].kind # "Ok"}
            IN IF bad # {} THEN rs[FirstOf(bad)]
               ELSE Ok(Flatten([i \in 1..Len(rs) |-> rs[i].value]))
       [] k \in {"Attribute", "String", "Node"} -> Err(InvalidNodeType(standard_type(v)))
       [] k \in S8Konst -> Ok(Flatten([i \in 1..Len(v.data) |-> NumToBytes(1, v.data[i])]))
       [] k \in U8Konst -> Ok(v.data)
       [] k \in BoolKonst -> Ok([i \in 1..Len(v.data) |-> IF v.data[i] THEN 1 ELSE 0])
       [] k \in MultiKonst ->
            Ok(Flatten([i \in 1..Len(v.data) |-> WriteBE(MultiInner(k), v.data[i])]))

Value_to_bytes(v) == to_bytes_inner(v)

(***************************************************************************)
(* ValueArray::from_standard_type                                          *)
(***************************************************************************)
MkValueArray(t, values) == [konst |-> "ValueArray", node_type |-> t, data |-> values]

\* FromKbinBytes::from_kbin_bytes for the element type of ValueArray::t: the
\* next size * count bytes of the reader, decoded as one element.
from_kbin_bytes(t, b) == FromStandardTypeValue(t, b)

RECURSIVE ReadElements(_, _, _, _)
ReadElements(t, chunks, i, values) ==
  IF i > Len(chunks) THEN Ok(MkValueArray(t, values))
  ELSE LET r == from_kbin_bytes(t, chunks[i])
       IN IF r.kind = "Ok"
          THEN ReadElements(t, chunks, i + 1, Append(values, r.value.data))
          ELSE r

ValueArray_from_standard_type(t, in) ==
  LET node_size == NodeSize(t)
  IN IF node_size = 0 THEN Panic   \* input.len() / 0
     ELSE LET len == Len(in) \div node_size
          IN IF node_size * len # Len(in)
             THEN Err(SizeMismatch(t, node_size, Len(in)))
             ELSE IF t \in {"NodeStart", "NodeEnd", "FileEnd", "Attribute",
                            "Binary", "String", "Time"}
             THEN OkNone
             ELSE ReadElements(t, SubSeq(Chunks(in, node_size), 1, len), 1, <<>>)

(***************************************************************************)
(* The inputs the calls are made with.                                     *)
(***************************************************************************)
\* Sequences of n items of S that are a everywhere but b at one place of P.
PatternSeqs(S, n, P) ==
  IF n = 0 THEN {<<>>}
  ELSE {[i \in 1..n |-> IF i = p THEN b ELSE a] :
          a \in S, b \in S, p \in P \cap (1..n)}

ElemSamples(inner) ==
  CASE inner.width = 1 /\ inner.kind = "i" -> {-128, -1, 0, 1, 127}
    [] inner.width = 1 /\ inner.kind = "u" -> {0, 1, 128, 255}
    [] inner.width = 2 /\ inner.kind = "i" -> {-32768, -1, 0, 258, 32767}
    [] inner.width = 2 /\ inner.kind = "u" -> {0, 258, 32768, 65535}
    [] inner.width = 4 ->
         {<<0, 0>>, <<258, 772>>, <<65535, 65535>>, <<32768, 1>>, <<32768, 0>>}
    [] inner.width = 8 ->
         {<<0, 0, 0, 0>>, <<258, 772, 1286, 1800>>,
          <<65535, 65535, 65535, 65535>>, <<32768, 0, 0, 1>>}

\* Non-array values of a fixed-size type.
Values(t) ==
  LET count == StandardType[t].count
  IN CASE t \in ScalarKonst -> {MkValue(t, e) : e \in ElemSamples(ScalarInner(t))}
       [] t = "Boolean" -> {MkValue(t, b) : b \in BOOLEAN}
       [] t = "Ip4" ->
            {MkValue(t, d) : d \in PatternSeqs({0, 1, 127, 255}, 4, 1..4)}
              \cup {MkValue(t, <<127, 0, 0, 1>>)}
       [] t \in S8Konst ->
            {MkValue(t, d) :
               d \in PatternSeqs(ElemSamples([kind |-> "i", width |-> 1]), count, 1..count)}
       [] t \in U8Konst ->
            {MkValue(t, d) :
               d \in PatternSeqs(ElemSamples([kind |-> "u", width |-> 1]), count, 1..count)}
       [] t \in BoolKonst -> {MkValue(t, d) : d \in PatternSeqs(BOOLEAN, count, 1..count)}
       [] t \in MultiKonst ->
            {MkValue(t, d) : d \in PatternSeqs(ElemSamples(MultiInner(t)), count, 1..count)}

ByteSamples == {0, 1, 2, 255}

\* Byte inputs of up to MaxChunks elements of type t and MaxExtra bytes more.
RawInputs(t) ==
  UNION {PatternSeqs(ByteSamples, n, {1, NodeSize(t), NodeSize(t) + 1, n}) :
           n \in 0..(MaxChunks * NodeSize(t) + MaxExtra)}

NoValue == [konst |-> "none"]
NoResult == [kind |-> "none"]

(***************************************************************************)
(* The calls of the binary value codec: the arguments are drawn when the   *)
(* call is set up (pc = "call"), the action makes the call (pc = "done").  *)
(***************************************************************************)
\* Value::Array values of up to MaxArrayLen elements.
MaxArrayLen == 3

ArrayTypes == {"S8", "U16", "S32", "U64", "Ip4", "Time", "Boolean", "U8_2", "S16_2", "U32_2"}

ArrayValues(t) ==
  UNION {{MkArray(t, xs) : xs \in PatternSeqs(Values(t), n, 1..n)} : n \in 0..MaxArrayLen}
    \cup (IF t = "U16"
          THEN {MkArray(t, <<MkValue(t, 1), MkValue(t, 2), MkValue(t, 3)>>)}
          ELSE {})

InitValue ==
  /\ pc = "call"
  /\ XmlIdle
  /\ DeIdle
  /\ NodeIdle
  /\ arr_count = 0
  /\ text = <<>>
  /\ result = NoResult
  /\ \/ /\ op = "to_bytes"
        /\ \E t \in FixedSizeTypes : value \in Values(t) /\ node_type = t
        /\ is_array = FALSE
        /\ input = <<>>
     \/ /\ op = "array_to_bytes"
        /\ \E t \in ArrayTypes : value \in ArrayValues(t) /\ node_type = t
        /\ is_array = TRUE
        /\ input = <<>>
     \/ /\ op = "from_standard_type"
        /\ \E t \in TypeNames : node_type = t /\ input \in RawInputs(t)
        /\ is_array \in BOOLEAN
        /\ value = NoValue
     \/ /\ op = "array_from_standard_type"
        /\ \E t \in TypeNames : node_type = t /\ input \in RawInputs(t)
        /\ is_array = TRUE
        /\ value = NoValue

\* Value::to_bytes(value)
ToBytes ==
  /\ pc = "call" /\ op = "to_bytes"
  /\ result' = Value_to_bytes(value)
  /\ pc' = "done"
  /\ UNCHANGED <<op, node_type, is_array, arr_count, input, text, value>>
  /\ UNCHANGED <<xmlvars, devars, nodevars>>

\* Value::to_bytes(value) of a Value::Array
ArrayToBytes ==
  /\ pc = "call" /\ op = "array_to_bytes"
  /\ result' = Value_to_bytes(value)
  /\ pc' = "done"
  /\ UNCHANGED <<op, node_type, is_array, arr_count, input, text, value>>
  /\ UNCHANGED <<xmlvars, devars, nodevars>>

\* Value::from_standard_type(value.standard_type(), false, bytes) on the bytes
\* that Value::to_bytes(value) has just returned.
FromBytesOfValue ==
  /\ pc = "done" /\ op = "to_bytes"
  /\ result.kind = "Ok"
  /\ op' = "round_trip"
  /\ input' = result.value
  /\ result' = Value_from_standard_type(standard_type(value), FALSE, result.value)
  /\ UNCHANGED <<pc, node_type, is_array, arr_count, text, value>>
  /\ UNCHANGED <<xmlvars, devars, nodevars>>

\* Value::from_standard_type(node_type, is_array, input)
FromStandardType ==
  /\ pc = "call" /\ op = "from_standard_type"
  /\ result' = Value_from_standard_type(node_type, is_array, input)
  /\ pc' = "done"
  /\ UNCHANGED <<op, node_type, is_array, arr_count, input, text, value>>
  /\ UNCHANGED <<xmlvars, devars, nodevars>>

\* ValueArray::from_standard_type(node_type, input)
ArrayFromStandardType ==
  /\ pc = "call" /\ op = "array_from_standard_type"
  /\ result' = ValueArray_from_standard_type(node_type, input)
  /\ pc' = "done"
  /\ UNCHANGED <<op, node_type, is_array, arr_count, input, text, value>>
  /\ UNCHANGED <<xmlvars, devars, nodevars>>

NextValue ==
  \/ ToBytes \/ ArrayToBytes \/ FromBytesOfValue
  \/ FromStandardType \/ ArrayFromStandardType

SpecValue == InitValue /\ [][NextValue]_vars

(***************************************************************************)
(* Claims about the binary value codec, checked under SpecValue.           *)
(***************************************************************************)
Returned(f) == pc = "done" /\ op = f

\* C1: for every non-array Value v of a fixed-size type,
\* Value::from_standard_type(v.standard_type(), false, v.to_bytes()) returns
\* Ok(Some(v)): binary encoding followed by binary decoding is the identity.
C1_RoundTrip == Returned("round_trip") => result = Ok(value)

C1_Witness ==
  /\ Returned("round_trip")
  /\ value.konst = "Vs16"
  /\ value.data[1] = -32768 /\ value.data[2] = 258
  /\ input[1] = 128 /\ input[4] = 2
  /\ result = Ok(value)

\* C2: for every non-array Value v of fixed-size type t, Value::to_bytes(v)
\* succeeds and returns exactly t.size * t.count bytes.
C2_EncodedLength ==
  Returned("to_bytes") =>
    /\ result.kind = "Ok"
    /\ Len(result.value) = StandardType[node_type].size * StandardType[node_type].count

C2_Witness ==
  /\ Returned("to_bytes")
  /\ value.konst = "U64_3"
  /\ result.kind = "Ok"
  /\ Len(result.value) = 24

\* The array decoders have returned for an input of a fixed-size type whose
\* length is no multiple of size * count.
ArrayDecoded ==
  \/ Returned("from_standard_type") /\ is_array
  \/ Returned("array_from_standard_type")

NotMultiple ==
  /\ node_type \in FixedSizeTypes
  /\ Len(input) % NodeSize(node_type) # 0

\* C3 as stated: both array decoders return a size-mismatch error whenever
\* input.len() is not a multiple of t.size * t.count.
C3_AlwaysSizeMismatch ==
  (ArrayDecoded /\ NotMultiple) =>
    result.kind = "Err" /\ result.err.name = "SizeMismatch"

\* The bytes of the whole elements of the input that are neither 0 nor 1.
BadWholeBooleans ==
  {i \in 1..((Len(input) \div NodeSize(node_type)) * NodeSize(node_type)) :
     input[i] \notin {0, 1}}

\* C3, amended: for an input whose length is no multiple of t.size * t.count
\* both array decoders return an error and never an array:
\* ValueArray::from_standard_type returns SizeMismatch(t, size * count, len);
\* Value::from_standard_type returns SizeMismatch(t, size * count, length of
\* the trailing piece), except that for a bool vector type with a byte other
\* than 0/1 in a whole element it returns InvalidBooleanInput of the first
\* such byte.
C3_ErrorOnPartialElement ==
  (ArrayDecoded /\ NotMultiple) =>
    /\ result.kind = "Err"
    /\ IF op = "array_from_standard_type"
       THEN result.err = SizeMismatch(node_type, NodeSize(node_type), Len(input))
       ELSE IF node_type \in BoolKonst /\ BadWholeBooleans # {}
       THEN result.err = InvalidBooleanInput(input[FirstOf(BadWholeBooleans)])
       ELSE result.err = SizeMismatch(node_type, NodeSize(node_type),
                                      Len(input) % NodeSize(node_type))

C3_Witness ==
  /\ Returned("from_standard_type") /\ is_array
  /\ node_type = "U16_2" /\ Len(input) = 5
  /\ result = Err(SizeMismatch("U16_2", 4, 1))

(***************************************************************************)
(* Value::from_string                                                      *)
(***************************************************************************)
Digits == <<"0", "1", "2", "3", "4", "5", "6", "7", "8", "9">>

DigitValue(c) == (CHOOSE d \in 1..10 : Digits[d] = c) - 1

IsDigit(c) == \E d \in 1..10 : Digits[d] = c

RECURSIVE Decimal(_)
Decimal(ds) ==
  IF ds = <<>> THEN 0
  ELSE 10 * Decimal(SubSeq(ds, 1, Len(ds) - 1)) + DigitValue(ds[Len(ds)])

\* The 16-bit limbs of the two's complement of n, m of them.
RECURSIVE NumToLimbs(_, _)
NumToLimbs(n, m) ==
  IF m = 0 THEN <<>> ELSE Append(NumToLimbs(n \div 65536, m - 1), n % 65536)

\* The numbers of an integer type of 1 or 2 bytes.
InRange(inner, n) ==
  CASE inner.width = 1 /\ inner.kind = "i" -> n \in -128..127
    [] inner.width = 1 /\ inner.kind = "u" -> n \in 0..255
    [] inner.width = 2 /\ inner.kind = "i" -> n \in -32768..32767
    [] inner.width = 2 /\ inner.kind = "u" -> n \in 0..65535

\* An integer of 4 or 8 bytes is held as its 16-bit limbs, the most
\* significant first.  The carry into limb k when the limbs are multiplied by
\* mul and add is added.
RECURSIVE Carry(_, _, _, _)
Carry(limbs, mul, add, k) ==
  IF k = Len(limbs) THEN add
  ELSE (limbs[k + 1] * mul + Carry(limbs, mul, add, k + 1)) \div 65536

\* limbs * mul + add in the width of limbs (checked_mul, checked_add), or <<>>
\* when it does not fit.
MulAdd(limbs, mul, add) ==
  IF limbs = <<>> \/ (limbs[1] * mul + Carry(limbs, mul, add, 1)) \div 65536 > 0
  THEN <<>>
  ELSE [k \in 1..Len(limbs) |-> (limbs[k] * mul + Carry(limbs, mul, add, k)) % 65536]

\* The number of the decimal digits ds in m limbs, or <<>> when it does not
\* fit.
RECURSIVE DecimalLimbs(_, _)
DecimalLimbs(ds, m) ==
  IF ds = <<>> THEN [k \in 1..m |-> 0]
  ELSE MulAdd(DecimalLimbs(SubSeq(ds, 1, Len(ds) - 1), m), 10, DigitValue(ds[Len(ds)]))

\* The two's complement of limbs: all bits inverted, plus 1.
Negate(limbs) ==
  [k \in 1..Len(limbs) |->
     (65535 - limbs[k] + Carry([j \in 1..Len(limbs) |-> 65535 - limbs[j]], 1, 1, k)) % 65536]

\* The end of parse::<T>() for a T of 4 or 8 bytes: magnitude is the number
\* of the digits (<<>> when it leaves the unsigned range of the width).
ParsedLimbs(t, inner, negative, magnitude) ==
  IF magnitude = <<>> THEN Err(StringParse(t))
  ELSE IF inner.kind = "u" THEN Ok(magnitude)
  ELSE IF magnitude[1] < 32768
  THEN Ok(IF negative THEN Negate(magnitude) ELSE magnitude)
  ELSE IF negative /\ magnitude = [k \in 1..Len(magnitude) |-> IF k = 1 THEN 32768 ELSE 0]
  THEN Ok(magnitude)
  ELSE Err(StringParse(t))

\* input.parse::<T>() for an integer type T: an optional sign ('-' for the
\* signed types only), then one or more decimal digits, within T's range.
parse(t, inner, s) ==
  LET signed == s # <<>> /\ (s[1] = "+" \/ (s[1] = "-" /\ inner.kind = "i"))
      digits == IF signed THEN Tail(s) ELSE s
      n == IF signed /\ s[1] = "-" THEN 0 - Decimal(digits) ELSE Decimal(digits)
  IN IF digits = <<>> \/ \E i \in 1..Len(digits) : ~IsDigit(digits[i])
     THEN Err(StringParse(t))
     ELSE IF inner.width > 2
     THEN ParsedLimbs(t, inner, signed /\ s[1] = "-",
                      DecimalLimbs(digits, inner.width \div 2))
     ELSE IF ~InRange(inner, n) THEN Err(StringParse(t))
     ELSE Ok(n)

\* The places of the character c in s, and the k-th of a set of places.
Places(s, c) == {i \in 1..Len(s) : s[i] = c}

Nth(P, k) == CHOOSE i \in P : Cardinality({j \in P : j < i}) = k - 1

\* The pieces of s between the places P (each place is a separator).
SplitAt(s, P) ==
  [k \in 1..(Cardinality(P) + 1) |->
     SubSeq(s, IF k = 1 THEN 1 ELSE Nth(P, k - 1) + 1,
               IF k = Cardinality(P) + 1 THEN Len(s) ELSE Nth(P, k) - 1)]

\* str::split(c)
Split(s, c) == SplitAt(s, Places(s, c))

\* The loop that stores one parsed part after the other in a fixed array of
\* count items: rs[k] is what parsing part k gives.  A failed parse returns
\* its error; a part parsed beyond the end of the array is an index out of
\* bounds; after the loop the number of parts is compared with count.
StoreParts(t, rs, count) ==
  LET reached == 1..Min(Len(rs), count + 1)
      failed == {k \in reached : rs[k].kind # "Ok"}
  IN IF failed # {} THEN rs[FirstOf(failed)]
     ELSE IF Len(rs) > count THEN Panic
     ELSE IF Len(rs) # count THEN Err(SizeMismatch(t, count, Len(rs)))
     ELSE Ok(MkValue(t, [k \in 1..count |-> rs[k].value]))

\* parse_tuple::<T>(node_type, input, &mut value)
parse_tuple(t, inner, s) ==
  LET parts == Split(s, " ")
  IN StoreParts(t, [k \in 1..Len(parts) |-> parse(t, inner, parts[k])],
                StandardType[t].count)

\* match input { "0" => false, "1" => true,
\*               v => return Err(InvalidBooleanInput(parse::<u8>(v)?)) }
ParseBoolean(t, s) ==
  IF s = <<"0">> THEN Ok(FALSE)
  ELSE IF s = <<"1">> THEN Ok(TRUE)
  ELSE LET r == parse(t, [kind |-> "u", width |-> 1], s)
       IN IF r.kind = "Ok" THEN Err(InvalidBooleanInput(r.value)) ELSE r

HexError == [name |-> "HexError"]

HexDigits ==
  <<"0", "1", "2", "3", "4", "5", "6", "7", "8", "9", "a", "b", "c", "d", "e", "f">>

HexValue(c) == (CHOOSE d \in 1..16 : HexDigits[d] = c) - 1

\* input.from_hex() for a text of lower-case digits without white space: two
\* hex digits a byte; any other character, or an odd length, is a HexError.
from_hex(s) ==
  IF \/ \E i \in 1..Len(s) : ~\E d \in 1..16 : HexDigits[d] = s[i]
     \/ Len(s) % 2 # 0
  THEN Err(HexError)
  ELSE Ok(MkValue("Binary", [i \in 1..(Len(s) \div 2) |->
                               16 * HexValue(s[2 * i - 1]) + HexValue(s[2 * i])]))

\* The types Value::from_string is modelled for: all but the float types
\* (f32 / f64 text) and bin (hex text).
TextTypes ==
  {t \in TypeNames :
     /\ t \notin {"Float", "Double", "Binary"}
     /\ t \in MultiKonst => MultiInner(t).kind # "f"}

\* is_array = false: the match on node_type.
FromStringSingle(t, s) ==
  CASE t \in ScalarKonst ->
         LET r == parse(t, ScalarInner(t), s)
         IN IF r.kind = "Ok" THEN Ok(MkValue(t, r.value)) ELSE r
    [] t = "Binary" -> from_hex(s)
    [] t \in {"String", "Attribute"} -> Ok(MkValue(t, s))
    [] t = "Ip4" ->
         LET parts == Split(s, ".")
             r == StoreParts(t, [k \in 1..Len(parts) |->
                                   parse(t, [kind |-> "u", width |-> 1], parts[k])], 4)
         IN r
    [] t = "Boolean" ->
         LET r == ParseBoolean(t, s)
         IN IF r.kind = "Ok" THEN Ok(MkValue(t, r.value)) ELSE r
    [] t \in {"NodeEnd", "FileEnd", "NodeStart"} -> Err(InvalidNodeType(t))
    [] t \in S8Konst -> parse_tuple(t, [kind |-> "i", width |-> 1], s)
    [] t \in U8Konst -> parse_tuple(t, [kind |-> "u", width |-> 1], s)
    [] t \in BoolKonst ->
         LET parts == Split(s, " ")
         IN StoreParts(t, [k \in 1..Len(parts) |-> ParseBoolean(t, parts[k])],
                       StandardType[t].count)
    [] t \in MultiKonst -> parse_tuple(t, MultiInner(t), s)

\* to_array: the input is split at every count-th space and each piece is
\* parsed as one value; arr_count is only traced.
to_array(t, count, s, n) ==
  LET spaces == Places(s, " ")
      cuts == {i \in spaces : Cardinality({j \in spaces : j <= i}) % count = 0}
      parts == SplitAt(s, cuts)
      rs == [k \in 1..Len(parts) |-> FromStringSingle(t, parts[k])]
      failed == {k \in 1..Len(rs) : rs[k].kind # "Ok"}
  IN IF failed # {} THEN rs[FirstOf(failed)]
     ELSE Ok(MkArray(t, [k \in 1..Len(rs) |-> rs[k].value]))

Value_from_string(t, s, arr, n) ==
  IF arr
  THEN CASE StandardType[t].count = 1 ->
              CASE n = 0 -> Err(InvalidState)
                [] n = 1 -> FromStringSingle(t, s)
                [] OTHER -> to_array(t, StandardType[t].count, s, n)
         [] StandardType[t].count > 1 -> to_array(t, StandardType[t].count, s, n)
         [] OTHER -> Err(InvalidState)
  ELSE FromStringSingle(t, s)

(***************************************************************************)
(* The calls of Value::from_string.                                        *)
(***************************************************************************)
MaxTextExtra == 2
MaxGroups == 2
MaxArrCount == 3

RECURSIVE Join(_, _)
Join(parts, sep) ==
  IF Len(parts) = 1 THEN parts[1]
  ELSE Join(SubSeq(parts, 1, Len(parts) - 1), sep) \o <<sep>> \o parts[Len(parts)]

Tokens ==
  {<<"0">>, <<"1">>, <<"2">>, <<"0", "1">>, <<"-", "1">>, <<"+", "1">>,
   <<"3", "0", "0">>, <<"t">>, <<>>}

ArrayTokens(t) ==
  IF t = "Ip4"
  THEN {<<"1", ".", "2", ".", "0", ".", "4">>, <<"0", ".", "0", ".", "0", ".", "0">>,
        <<"1", ".", "2", ".", "3">>, <<"1", ".", "2", ".", "3", ".", "4", ".", "5">>}
  ELSE {<<"0">>, <<"1">>, <<"2">>, <<"t">>}

Separator(t) == IF t = "Ip4" THEN "." ELSE " "

PartCount(t) == IF t = "Ip4" THEN 4 ELSE StandardType[t].count

\* Texts of 1 .. most parts, joined by sep.
Texts(S, sep, count, most) ==
  UNION {{Join(parts, sep) : parts \in PatternSeqs(S, k, {1, count, count + 1, k})} :
           k \in 1..most}

InitText ==
  /\ pc = "call"
  /\ XmlIdle
  /\ DeIdle
  /\ NodeIdle
  /\ op = "from_string"
  /\ input = <<>>
  /\ value = NoValue
  /\ result = NoResult
  /\ node_type \in TextTypes
  /\ \/ /\ is_array = FALSE
        /\ arr_count = 0
        /\ text \in Texts(Tokens, Separator(node_type), PartCount(node_type),
                          PartCount(node_type) + MaxTextExtra)
     \/ /\ is_array = TRUE
        /\ arr_count \in 0..MaxArrCount
        /\ text \in Texts(ArrayTokens(node_type), " ", StandardType[node_type].count,
                          MaxGroups * StandardType[node_type].count + 1)

FromString ==
  /\ pc = "call"
  /\ op = "from_string"
  /\ result' = Value_from_string(node_type, text, is_array, arr_count)
  /\ pc' = "done"
  /\ UNCHANGED <<op, node_type, is_array, arr_count, input, text, value>>
  /\ UNCHANGED <<xmlvars, devars, nodevars>>

NextText == FromString

SpecText == InitText /\ [][NextText]_vars

(***************************************************************************)
(* Claims about Value::from_string.                                        *)
(***************************************************************************)
BoolText == {<<"0">>, <<"1">>}

\* The parts the claims count: the dot-separated octets of an ip4, the
\* space-separated parts of any other type.
TextParts == Split(text, Separator(node_type))

\* C6: Value::from_string for bool, and for each space-separated part of a
\* bool vector, returns Ok only when the text is exactly "0" or "1"; every
\* other text yields an error value and never a Value.
C6_OnlyZeroOrOne ==
  Returned("from_string") /\ ~is_array /\ node_type \in BoolKonst \cup {"Boolean"} =>
    LET parts == IF node_type = "Boolean" THEN <<text>> ELSE TextParts
        exact == \A k \in 1..Len(parts) : parts[k] \in BoolText
    IN /\ result.kind = "Ok" => exact
       /\ ~exact => result.kind = "Err"

\* The part of C6 the code keeps: no Value is made of a text with a part
\* other than "0" and "1".
NoValueOfOtherText ==
  Returned("from_string") /\ ~is_array /\ node_type \in BoolKonst \cup {"Boolean"} =>
    LET parts == IF node_type = "Boolean" THEN <<text>> ELSE TextParts
    IN result.kind = "Ok" => \A k \in 1..Len(parts) : parts[k] \in BoolText

FixedVectorTypes == {t \in TextTypes : StandardType[t].count > 1} \cup {"Ip4"}

\* C7: Value::from_string for a fixed-vector type with count c and for ip4
\* (c = 4) returns the error SizeMismatch(type, c, k) whenever the text has k
\* well-formed parts with k # c, for k < c and for k > c alike; with a part
\* that does not parse it still returns an error value.
C7_SizeMismatchOnPartCount ==
  Returned("from_string") /\ ~is_array /\ node_type \in FixedVectorTypes
    /\ Len(TextParts) # PartCount(node_type) =>
      /\ result.kind = "Err"
      /\ (\A k \in 1..Len(TextParts) : TextParts[k] \in BoolText) =>
           result = Err(SizeMismatch(node_type, PartCount(node_type), Len(TextParts)))

\* The groups of count space-separated tokens of the text.
Groups ==
  LET spaces == Places(text, " ")
      count == StandardType[node_type].count
  IN SplitAt(text, {i \in spaces : Cardinality({j \in spaces : j <= i}) % count = 0})

\* C10: Value::from_string(t, input, is_array = true, arr_count = n) with
\* n >= 1 returns Ok only with a Value::Array(t, xs) of exactly n items, the
\* groups of t.count tokens of the input in order; an input whose number of
\* groups differs from n is rejected with an error.
C10_ArrayOfArrCount ==
  Returned("from_string") /\ is_array /\ arr_count >= 1
    /\ StandardType[node_type].count >= 1 =>
      /\ result.kind = "Ok" =>
           /\ result.value.konst = "Array"
           /\ result.value.node_type = node_type
           /\ Len(result.value.data) = arr_count
           /\ \A k \in 1..arr_count :
                Ok(result.value.data[k]) = FromStringSingle(node_type, Groups[k])
      /\ Len(Groups) # arr_count => result.kind = "Err"

(***************************************************************************)
(* TextXmlReader                                                           *)
(***************************************************************************)
\* The bytes of the characters that the texts of the model are made of.
AsciiCode ==
  " " :> 32 @@ "+" :> 43 @@ "-" :> 45 @@ "." :> 46 @@
  "0" :> 48 @@ "1" :> 49 @@ "2" :> 50 @@ "3" :> 51 @@ "4" :> 52 @@
  "5" :> 53 @@ "6" :> 54 @@ "7" :> 55 @@ "8" :> 56 @@ "9" :> 57 @@
  "a" :> 97 @@ "b" :> 98 @@ "c" :> 99 @@ "d" :> 100 @@ "e" :> 101 @@
  "f" :> 102 @@ "t" :> 116

Bytes(s) == [i \in 1..Len(s) |-> AsciiCode[s[i]]]

\* The canonical names of the types that carry a value.
ElementName(inner) ==
  CASE inner.kind = "f" /\ inner.width = 4 -> <<"f", "l", "o", "a", "t">>
    [] inner.kind = "f" /\ inner.width = 8 -> <<"d", "o", "u", "b", "l", "e">>
    [] inner.width = 1 -> <<IF inner.kind = "i" THEN "s" ELSE "u", "8">>
    [] inner.width = 2 -> <<IF inner.kind = "i" THEN "s" ELSE "u", "1", "6">>
    [] inner.width = 4 -> <<IF inner.kind = "i" THEN "s" ELSE "u", "3", "2">>
    [] inner.width = 8 -> <<IF inner.kind = "i" THEN "s" ELSE "u", "6", "4">>

CountName(count) == IF count > 4 THEN "v" ELSE Digits[count + 1]

NamedTypes == TypeNames \ {"NodeStart", "NodeEnd", "FileEnd", "Attribute"}

TypeName(t) ==
  CASE t = "Binary" -> <<"b", "i", "n">>
    [] t = "String" -> <<"s", "t", "r">>
    [] t = "Ip4" -> <<"i", "p", "4">>
    [] t = "Time" -> <<"t", "i", "m", "e">>
    [] t = "Boolean" -> <<"b", "o", "o", "l">>
    [] t \in ScalarKonst -> ElementName(ScalarInner(t))
    [] t \in BoolKonst -> <<CountName(StandardType[t].count), "b">>
    [] t \in S8Konst -> <<CountName(StandardType[t].count), "s", "8">>
    [] t \in U8Konst -> <<CountName(StandardType[t].count), "u", "8">>
    [] t \in MultiKonst ->
         <<CountName(StandardType[t].count)>> \o ElementName(MultiInner(t))

InvalidKbinType == [name |-> "InvalidKbinType"]

\* StandardType::from_name(value).context(InvalidKbinType)
from_name(name) ==
  IF \E t \in NamedTypes : TypeName(t) = name
  THEN Ok(CHOOSE t \in NamedTypes : TypeName(t) = name)
  ELSE Err(InvalidKbinType)

StringParseInt(what) == [name |-> "StringParseInt", node_type |-> what]

UnknownEncoding == [name |-> "UnknownEncoding"]

XmlError == [name |-> "XmlError"]

\* EncodingType::from_label(label)
from_label(label) ==
  CASE label = "SHIFT_JIS" -> Ok("SHIFT_JIS")
    [] label = "ASCII" -> Ok("ASCII")
    [] label = "ISO-8859-1" -> Ok("ISO_8859_1")
    [] label = "EUC-JP" -> Ok("EUC_JP")
    [] label = "UTF-8" -> Ok("UTF_8")
    [] OTHER -> Err(UnknownEncoding)

None == [some |-> FALSE, v |-> 0]

Some(n) == [some |-> TRUE, v |-> n]

NodeDefinition(enc, t, arr, key, value_data) ==
  [encoding |-> enc, node_type |-> t, is_array |-> arr,
   data |-> [key |-> key, value_data |-> value_data]]

NodeCollection(base, attributes) ==
  [base |-> base, attributes |-> attributes, children |-> <<>>]

EMPTY_STRING_DATA == <<0>>

\* Mutant of parse_attribute: the value without the trailing null byte.
parse_attribute_raw(enc, key, val) ==
  NodeDefinition(enc, "Attribute", FALSE, key, Bytes(val))

\* parse_attribute(key, value): the value with the trailing null byte
parse_attribute(enc, key, val) ==
  NodeDefinition(enc, "Attribute", FALSE, key, Bytes(val) \o <<0>>)

\* value.parse::<u32>() / value.parse::<usize>(): the number, or -1
ParseCount(val) ==
  LET r == parse("count", [kind |-> "u", width |-> 2], val)
  IN IF r.kind = "Ok" THEN r.value ELSE -1

\* What the loop of parse_attributes makes of one attribute: an error, or
\* the key and what is kept of the value.
ParsedAttribute(enc, attr) ==
  IF ~attr.ok THEN Ok([key |-> "", v |-> 0])
  ELSE CASE attr.key = "__type" ->
              LET r == from_name(attr.value)
              IN IF r.kind # "Ok" THEN r ELSE Ok([key |-> attr.key, v |-> r.value])
         [] attr.key = "__count" ->
              LET n == ParseCount(attr.value)
              IN IF n < 0 THEN Err(StringParseInt("array count"))
                 ELSE Ok([key |-> attr.key, v |-> n])
         [] attr.key = "__size" ->
              LET n == ParseCount(attr.value)
              IN IF n < 0 THEN Err(StringParseInt("binary size"))
                 ELSE Ok([key |-> attr.key, v |-> n])
         [] OTHER ->
              Ok([key |-> "attribute", v |-> parse_attribute(enc, attr.key, attr.value)])

\* The end of parse_attributes for the attributes parsed as rs: the first
\* error of the loop, or the last __type (NodeStart without one), the last
\* __count (0 without one), the last __size and the other attributes in
\* their order.
CollectAttributes(rs) ==
  LET failed == {i \in 1..Len(rs) : rs[i].kind # "Ok"}
      at(key) == {i \in 1..Len(rs) : rs[i].value.key = key}
      last(key) == rs[CHOOSE i \in at(key) : \A j \in at(key) : j <= i].value.v
      others == SelectSeq(rs, LAMBDA r : r.value.key = "attribute")
  IN IF failed # {} THEN rs[FirstOf(failed)]
     ELSE Ok([node_type |-> IF at("__type") # {} THEN last("__type") ELSE "NodeStart",
              count |-> IF at("__count") # {} THEN last("__count") ELSE 0,
              size |-> IF at("__size") # {} THEN Some(last("__size")) ELSE None,
              attributes |-> [i \in 1..Len(others) |-> others[i].value.v]])

parse_attributes(enc, attrs) ==
  CollectAttributes([i \in 1..Len(attrs) |-> ParsedAttribute(enc, attrs[i])])

\* handle_start(e) once parse_attributes has returned r: the collection of
\* the element, its count and its size.
StartOf(enc, e, r) ==
  IF r.kind # "Ok" THEN r
  ELSE Ok([collection |->
             NodeCollection(
               NodeDefinition(enc, r.value.node_type, r.value.count > 0, e.name,
                 IF r.value.node_type = "String" THEN EMPTY_STRING_DATA ELSE <<>>),
               r.value.attributes),
           count |-> r.value.count, size |-> r.value.size])

handle_start(enc, e) == StartOf(enc, e, parse_attributes(enc, e.attrs))

\* The bytes of the value v that Value::from_string has returned, checked
\* against the size attribute.
CheckedBytes(size, v) ==
  IF v.kind # "Ok" THEN v
  ELSE IF v.value.konst = "Binary" /\ size.some /\ Len(v.value.data) # size.v
  THEN Err(InvalidState)
  ELSE Value_to_bytes(v.value)

\* Mutant of WithData: the node type is left as it is.
WithDataKeepType(definition, data) ==
  IF data.kind # "Ok" THEN data
  ELSE Ok([definition EXCEPT !.data.value_data = data.value])

\* The end of handle_text: the definition with the value data.
WithData(definition, data) ==
  IF data.kind # "Ok" THEN data
  ELSE Ok([definition EXCEPT
             !.node_type = IF @ = "NodeStart" THEN "String" ELSE @,
             !.data.value_data = data.value])

\* handle_text(event, definition, count, size): the definition with the value
\* data of the text, or the error
handle_text(e, definition, count, size) ==
  WithData(definition,
    IF definition.node_type \in {"String", "NodeStart"}
    THEN Ok(Bytes(e.text) \o <<0>>)
    ELSE CheckedBytes(size,
           Value_from_string(definition.node_type, e.text, definition.is_array, count)))

(***************************************************************************)
(* The documents: the events quick_xml makes of the input.  Values and     *)
(* texts hold no escapes; the text of a bin element holds no white space.  *)
(***************************************************************************)
MaxChildren == 2

Event(kind, name, attrs, txt, label) ==
  [kind |-> kind, name |-> name, attrs |-> attrs, text |-> txt, label |-> label]

Start(name, attrs) == Event("Start", name, attrs, <<>>, "")
Empty(name, attrs) == Event("Empty", name, attrs, <<>>, "")
Text(txt) == Event("Text", "", <<>>, txt, "")
End(name) == Event("End", name, <<>>, <<>>, "")
Decl(label) == Event("Decl", "", <<>>, <<>>, label)
Comment == Event("Comment", "", <<>>, <<>>, "")
Eof == Event("Eof", "", <<>>, <<>>, "")
ReadError == Event("Error", "", <<>>, <<>>, "")

Attr(key, val) == [ok |-> TRUE, key |-> key, value |-> val]

\* An attribute that quick_xml fails to read.
BadAttr == [ok |-> FALSE, key |-> "", value |-> <<>>]

TypeAttrs ==
  {<<>>} \cup {<<Attr("__type", n)>> :
                 n \in {TypeName("U8"), TypeName("U8_2"), TypeName("S32"), TypeName("String"),
                        TypeName("Binary"), TypeName("Boolean"), TypeName("Ip4"),
                        <<"t">>}}

CountAttrs ==
  {<<>>} \cup {<<Attr("__count", n)>> : n \in {<<"0">>, <<"1">>, <<"2">>, <<"t">>}}

SizeAttrs == {<<>>} \cup {<<Attr("__size", n)>> : n \in {<<"0">>, <<"1">>}}

UserAttrs == {<<>>, <<Attr("a", <<"1">>), Attr("b", <<"2">>)>>, <<BadAttr>>}

AttrLists ==
  {t \o c \o z \o u : t \in TypeAttrs, c \in CountAttrs, z \in SizeAttrs, u \in UserAttrs}

TextSamples ==
  {<<"1">>, <<"1", " ", "2">>, <<"2">>, <<"0", "a">>, <<"1", ".", "2", ".", "3", ".", "4">>,
   <<"t">>}

IsBin(attrs) == \E i \in 1..Len(attrs) : attrs[i] = Attr("__type", TypeName("Binary"))

\* An element without children: <x/>, <x></x> or <x>text</x>.
Leaves(name, lists, texts) ==
  {<<Empty(name, a)>> : a \in lists}
    \cup {<<Start(name, a), End(name)>> : a \in lists}
    \cup {<<Start(name, a), Text(txt), End(name)>> :
            a \in {l \in lists : ~IsBin(l)}, txt \in texts}
    \cup {<<Start(name, a), Text(txt), End(name)>> :
            a \in {l \in lists : IsBin(l)},
            txt \in {x \in texts : \A i \in 1..Len(x) : x[i] # " "}}

ChildAttrLists ==
  {<<>>, <<Attr("__type", TypeName("U8"))>>,
   <<Attr("__type", TypeName("U8")), Attr("__count", <<"2">>)>>,
   <<Attr("__type", TypeName("Binary")), Attr("__size", <<"1">>)>>}

ChildLeaves == Leaves("y", ChildAttrLists, {<<"1">>, <<"1", " ", "2">>, <<"0", "a">>})

\* An element with 1 .. MaxChildren children without children of their own.
Parents ==
  {<<Start("x", a)>> \o Flatten(cs) \o <<End("x")>> :
     a \in {<<>>, <<Attr("a", <<"1">>), Attr("b", <<"2">>)>>},
     cs \in UNION {PatternSeqs(ChildLeaves, n, 1..n) : n \in 1..MaxChildren}}

Prologs ==
  {<<>>, <<Comment>>, <<Text(<<"t">>)>>, <<End("x")>>, <<ReadError>>}
    \cup {<<Decl(l)>> : l \in {"", "UTF-8", "SHIFT_JIS", "t"}}

\* A parent that is cut off before its end.
Truncated == UNION {{SubSeq(d, 1, Len(d) - 2), SubSeq(d, 1, Len(d) - 1)} : d \in Parents}

\* An element whose first child has a child of its own.
Nested ==
  {<<Start("x", <<>>), Start("y", <<>>)>> \o c \o <<End("y")>> \o d \o <<End("x")>> :
     c \in Leaves("z", ChildAttrLists, {<<"1">>}), d \in ChildLeaves}

Documents ==
  {p \o d : p \in Prologs, d \in Leaves("x", AttrLists, TextSamples)}
    \cup Parents \cup Truncated \cup Nested

ValueIdle ==
  /\ node_type = "NodeStart"
  /\ is_array = FALSE
  /\ arr_count = 0
  /\ input = <<>>
  /\ text = <<>>
  /\ value = NoValue

\* TextXmlReader::new(input)
InitXml ==
  /\ pc = "call"
  /\ op = "as_node_collection"
  /\ result = NoResult
  /\ ValueIdle
  /\ DeIdle
  /\ NodeIdle
  /\ document \in Documents
  /\ xml_reader = 0
  /\ encoding = "UTF_8"
  /\ stack = <<>>

\* What self.xml_reader.read_event(&mut buf) returns next.
NextEvent == IF xml_reader < Len(document) THEN document[xml_reader + 1] ELSE Eof

Reading(kind) == pc = "call" /\ op = "as_node_collection" /\ NextEvent.kind = kind

Return(r) ==
  /\ result' = r
  /\ pc' = "done"
  /\ xml_reader' = xml_reader + 1

Continue ==
  /\ xml_reader' = xml_reader + 1
  /\ UNCHANGED <<pc, result>>

Last(s) == s[Len(s)]

Front(s) == SubSeq(s, 1, Len(s) - 1)

\* self.xml_reader.read_event(&mut buf)?
EventError ==
  /\ Reading("Error")
  /\ Return(Err(XmlError))
  /\ UNCHANGED <<op, valuevars, devars, nodevars, document, encoding, stack>>

\* let start = self.handle_start(e)?; self.stack.push(start);
Push(start) ==
  IF start.kind # "Ok"
  THEN Return(start) /\ UNCHANGED stack
  ELSE Continue /\ stack' = Append(stack, start.value)

\* Event::Start(e)
EventStart ==
  /\ Reading("Start")
  /\ Push(handle_start(encoding, NextEvent))
  /\ UNCHANGED <<op, valuevars, devars, nodevars, document, encoding>>

\* Self::handle_text(e, base, *count, *size)?, base being borrowed mutably
SetBase(r) ==
  IF r.kind # "Ok"
  THEN Return(r) /\ UNCHANGED stack
  ELSE Continue /\ stack' = [stack EXCEPT ![Len(stack)].collection.base = r.value]

TextOnTop(e, top) == handle_text(e, top.collection.base, top.count, top.size)

\* Event::Text(e)
EventText ==
  /\ Reading("Text")
  /\ IF stack = <<>>
     THEN Continue /\ UNCHANGED stack
     ELSE SetBase(TextOnTop(NextEvent, Last(stack)))
  /\ UNCHANGED <<op, valuevars, devars, nodevars, document, encoding>>

\* Mutant of Pop: the collection goes to the front of the children.
PopToFront(collection, rest) ==
  IF rest # <<>>
  THEN /\ Continue
       /\ stack' = [rest EXCEPT ![Len(rest)].collection.children = <<collection>> \o @]
  ELSE Return(Ok(collection)) /\ stack' = rest

\* The collection popped goes to the children of its parent, or is returned.
Pop(collection, rest) ==
  IF rest # <<>>
  THEN /\ Continue
       /\ stack' = [rest EXCEPT ![Len(rest)].collection.children = Append(@, collection)]
  ELSE Return(Ok(collection)) /\ stack' = rest

\* Event::End(_)
EventEnd ==
  /\ Reading("End")
  /\ IF stack = <<>>
     THEN Continue /\ UNCHANGED stack
     ELSE Pop(Last(stack).collection, Front(stack))
  /\ UNCHANGED <<op, valuevars, devars, nodevars, document, encoding>>

\* let (collection, count, size) = self.handle_start(e)?; the two asserts;
\* the collection is pushed to the children of the parent, if there is one.
PushChild(start) ==
  IF start.kind # "Ok"
  THEN Return(start) /\ UNCHANGED stack
  ELSE IF start.value.count # 0 \/ (start.value.size.some /\ start.value.size.v # 0)
  THEN Return(Panic) /\ UNCHANGED stack
  ELSE /\ Continue
       /\ stack' = IF stack # <<>>
                   THEN [stack EXCEPT ![Len(stack)].collection.children =
                           Append(@, start.value.collection)]
                   ELSE stack

\* Event::Empty(e)
EventEmpty ==
  /\ Reading("Empty")
  /\ PushChild(handle_start(encoding, NextEvent))
  /\ UNCHANGED <<op, valuevars, devars, nodevars, document, encoding>>

\* self.encoding = EncodingType::from_label(&encoding?)?
SetEncoding(r) ==
  IF r.kind # "Ok"
  THEN Return(r) /\ UNCHANGED encoding
  ELSE Continue /\ encoding' = r.value

\* Event::Decl(e)
EventDecl ==
  /\ Reading("Decl")
  /\ IF NextEvent.label = ""
     THEN Continue /\ UNCHANGED encoding
     ELSE SetEncoding(from_label(NextEvent.label))
  /\ UNCHANGED <<op, valuevars, devars, nodevars, document, stack>>

\* A loop that takes Eof for an error of the input.
EventEofIsError ==
  /\ Reading("Eof")
  /\ result' = Err(XmlError)
  /\ pc' = "done"
  /\ UNCHANGED <<op, valuevars, devars, nodevars, xmlvars>>

\* Event::Eof => break, then Ok(None)
EventEof ==
  /\ Reading("Eof")
  /\ result' = OkNone
  /\ pc' = "done"
  /\ UNCHANGED <<op, valuevars, devars, nodevars, xmlvars>>

\* _ => {}
EventOther ==
  /\ Reading("Comment")
  /\ Continue
  /\ UNCHANGED <<op, valuevars, devars, nodevars, document, encoding, stack>>

NextXml ==
  \/ EventError \/ EventStart \/ EventText \/ EventEnd
  \/ EventEmpty \/ EventDecl \/ EventEof \/ EventOther

SpecXml == InitXml /\ [][NextXml]_vars

(***************************************************************************)
(* The data buffer of the reader, with its three cursors: byte (1-byte     *)
(* reads), word (2-byte reads) and dword (the main cursor).                *)
(***************************************************************************)
AlignUp(n, a) == ((n + a - 1) \div a) * a

EndOfStream == [name |-> "EndOfStream"]

DataRead(n) == [name |-> "DataRead", size |-> n]

ArrayLengthRead == [name |-> "ArrayLengthRead"]

InvalidBooleanMessage(b) ==
  [name |-> "Message", message |-> "invalid value for boolean", value |-> b]

\* de::Error::invalid_length(index, &visitor), an Error::Message as well
InvalidLength(n) == [name |-> "Message", message |-> "invalid length", value |-> n]

\* n bytes at pos, and the buffer after the read; reading past the end fails.
Taken(rd, pos, n, after, error) ==
  IF pos + n > Len(rd.data) THEN Err(error)
  ELSE Ok([bytes |-> SubSeq(rd.data, pos + 1, pos + n), reader |-> after])

\* data_buf.get_aligned(node_type), size being node_type.size * count: a
\* 1-byte or 2-byte read takes the next place of its cursor in the window
\* that cursor has borrowed, and opens a new window at the dword cursor when
\* that window is used up; a longer read is made at the dword cursor.
get_aligned(rd, size) ==
  CASE size = 1 ->
         IF rd.byte % 4 = 0
         THEN Taken(rd, rd.dword, 1,
                    [rd EXCEPT !.byte = rd.dword + 1, !.dword = rd.dword + 4], EndOfStream)
         ELSE Taken(rd, rd.byte, 1, [rd EXCEPT !.byte = @ + 1], EndOfStream)
    [] size = 2 ->
         IF rd.word % 4 = 0
         THEN Taken(rd, rd.dword, 2,
                    [rd EXCEPT !.word = rd.dword + 2, !.dword = rd.dword + 4], EndOfStream)
         ELSE Taken(rd, rd.word, 2, [rd EXCEPT !.word = @ + 2], EndOfStream)
    [] OTHER ->
         Taken(rd, rd.dword, size, [rd EXCEPT !.dword = @ + AlignUp(size, 4)], EndOfStream)

\* data_buf.realign_reads(None)
realign_reads(rd) ==
  [rd EXCEPT !.dword = AlignUp(@, 4), !.byte = AlignUp(rd.dword, 4),
             !.word = AlignUp(rd.dword, 4)]

\* A read of n bytes at the main cursor, without alignment: reader.read_u8,
\* reader.read_u32, data_buf.read_u16::<BigEndian>() and the like.
read_exact(rd, n, error) ==
  Taken(rd, rd.dword, n, [rd EXCEPT !.dword = @ + n], error)

\* BigEndian::read_u32 of an array length (below 2^31 in the model)
U32(b) == ((b[1] * 256 + b[2]) * 256 + b[3]) * 256 + b[4]

(***************************************************************************)
(* Deserializer.  The Rust type that is deserialized decides which method  *)
(* its Deserialize impl calls: a primitive calls deserialize_bool, _u8 ..  *)
(* _f64; Vec<T> calls deserialize_seq, [T; n] and (T, ..) call             *)
(* deserialize_tuple, a tuple struct deserialize_tuple_struct, and their   *)
(* visitors take elements from the access they are given: the visitor of   *)
(* Vec<T> until the access ends, the visitor of an array or tuple as many  *)
(* as the type has, failing with invalid_length when the access ends       *)
(* before.  Lists of structs (Seq::new(self, None)) are outside the model. *)
(***************************************************************************)
Prim(m) == [k |-> m]

SeqOf(e) == [k |-> "seq", elem |-> e]

TupleOf(n, e) == [k |-> "tuple", len |-> n, elem |-> e]

TupleStructOf(n, e) == [k |-> "tuple_struct", len |-> n, elem |-> e]

\* de_type!(byte; ..) and de_type!(large; ..): the method of a primitive and
\* the StandardType it reads
ByteMethods == {"u8", "i8"}

LargeMethods == {"u16", "i16", "u32", "i32", "u64", "i64", "f32", "f64"}

MethodInner(m) ==
  CASE m = "u8" -> [kind |-> "u", width |-> 1]
    [] m = "i8" -> [kind |-> "i", width |-> 1]
    [] m = "u16" -> [kind |-> "u", width |-> 2]
    [] m = "i16" -> [kind |-> "i", width |-> 2]
    [] m = "u32" -> [kind |-> "u", width |-> 4]
    [] m = "i32" -> [kind |-> "i", width |-> 4]
    [] m = "u64" -> [kind |-> "u", width |-> 8]
    [] m = "i64" -> [kind |-> "i", width |-> 8]
    [] m = "f32" -> [kind |-> "f", width |-> 4]
    [] m = "f64" -> [kind |-> "f", width |-> 8]

Calling(k) == pc = "call" /\ op = "deserialize" /\ ty.k = k

\* Where a method returns to: out of the Deserializer, to the access of the
\* sequence that deserializes an element, or to the method of the map
\* access whose seed made the call.
ReturnPc(fs) ==
  CASE fs = <<>> -> "done"
    [] fs # <<>> /\ Last(fs).fn = "next_key_seed" -> "key"
    [] fs # <<>> /\ Last(fs).fn = "next_value_seed" -> "value"
    [] OTHER -> "access"

\* An error returned with `?` through every caller.
Fail(e, rd) ==
  /\ pc' = "done"
  /\ result' = e
  /\ reader' = rd
  /\ UNCHANGED <<read_mode, node_stack, first_struct, ty, frames, visited>>

\* visitor.visit_..(value) and the return to the caller: to the access of
\* the enclosing sequence, or out of the Deserializer.
Visit(m, v, rd) ==
  /\ visited' = Append(visited, [m |-> m, value |-> v])
  /\ reader' = rd
  /\ pc' = ReturnPc(frames)
  /\ IF frames = <<>>
     THEN result' = Ok(Append(visited, [m |-> m, value |-> v]))
     ELSE UNCHANGED result
  /\ UNCHANGED <<read_mode, node_stack, first_struct, ty, frames>>

\* match value { 0x00 => false, 0x01 => true, value => return Err(..) };
\* visitor.visit_bool(value)
VisitBool(r) ==
  IF r.kind # "Ok" THEN Fail(r, reader)
  ELSE IF r.value.bytes[1] \notin {0, 1}
  THEN Fail(Err(InvalidBooleanMessage(r.value.bytes[1])), r.value.reader)
  ELSE Visit("bool", r.value.bytes[1] = 1, r.value.reader)

\* Deserializer::deserialize_bool
DeserializeBool ==
  /\ Calling("bool")
  /\ VisitBool(get_aligned(reader, NodeSize("Boolean")))
  /\ UNCHANGED <<op, valuevars, xmlvars, nodevars>>

VisitNumber(m, r) ==
  IF r.kind # "Ok" THEN Fail(r, reader)
  ELSE Visit(m, ReadBE(MethodInner(m), r.value.bytes), r.value.reader)

\* The match on self.read_mode of de_type!
ReadNumber(width) ==
  CASE read_mode = "Key" -> Err(InvalidState)
    [] read_mode = "Single" -> get_aligned(reader, width)
    [] read_mode = "Array" -> read_exact(reader, width, DataRead(width))

\* Deserializer::deserialize_u8 / deserialize_i8
DeserializeByte ==
  /\ pc = "call" /\ op = "deserialize" /\ ty.k \in ByteMethods
  /\ VisitNumber(ty.k, ReadNumber(1))
  /\ UNCHANGED <<op, valuevars, xmlvars, nodevars>>

\* Deserializer::deserialize_u16 .. deserialize_f64
DeserializeLarge ==
  /\ pc = "call" /\ op = "deserialize" /\ ty.k \in LargeMethods
  /\ VisitNumber(ty.k, ReadNumber(MethodInner(ty.k).width))
  /\ UNCHANGED <<op, valuevars, xmlvars, nodevars>>

\* The number of elements the visitor of the type takes from an access of
\* len elements.
Take(len) == IF ty.k = "seq" THEN len ELSE ty.len

\* self.set_read_mode(ReadMode::Array); visitor.visit_seq(Seq::new(self,
\* Some(len))?): the call waits for its visitor.
VisitSeq(fn, len, rd) ==
  /\ read_mode' = "Array"
  /\ frames' = Append(frames, [fn |-> fn, old_read_mode |-> read_mode, len |-> len,
                               take |-> Take(len), index |-> 0, elem |-> ty.elem])
  /\ reader' = rd
  /\ pc' = "access"
  /\ UNCHANGED <<result, node_stack, first_struct, ty, visited>>

\* The typed branch of deserialize_seq once the array length has been read.
VisitArray(node_size, r) ==
  IF r.kind # "Ok" THEN Fail(r, reader)
  ELSE IF node_size = 0 THEN Fail(Panic, r.value.reader)
  ELSE VisitSeq("deserialize_seq", U32(r.value.bytes) \div node_size, r.value.reader)

\* The body of deserialize_seq.
SeqBody ==
  IF node_stack = <<>> THEN Fail(Err(InvalidState), reader)
  ELSE VisitArray(NodeSize(Last(node_stack).node_type),
                  read_exact(reader, 4, ArrayLengthRead))

\* Deserializer::deserialize_seq, up to the call of the visitor
DeserializeSeq ==
  /\ Calling("seq")
  /\ node_stack # <<>> => Last(node_stack).node_type # "NodeStart"
  /\ SeqBody
  /\ UNCHANGED <<op, valuevars, xmlvars, nodevars>>

\* Deserializer::deserialize_tuple, up to the call of the visitor
DeserializeTuple ==
  /\ Calling("tuple")
  /\ IF node_stack = <<>> THEN Fail(Err(InvalidState), reader)
     ELSE IF Last(node_stack).is_array /\ read_mode = "Single"
     THEN Last(node_stack).node_type # "NodeStart" /\ SeqBody
     ELSE VisitSeq("deserialize_tuple", ty.len, reader)
  /\ UNCHANGED <<op, valuevars, xmlvars, nodevars>>

\* Deserializer::deserialize_tuple_struct, up to the call of the visitor
DeserializeTupleStruct ==
  /\ Calling("tuple_struct")
  /\ VisitSeq("deserialize_tuple_struct", ty.len, reader)
  /\ UNCHANGED <<op, valuevars, xmlvars, nodevars>>

Accessing == pc = "access" /\ op = "deserialize" /\ frames # <<>>

\* Seq::next_element_seed while elements are left: the seed deserializes the
\* next element.
NextElement ==
  /\ Accessing
  /\ Last(frames).index < Last(frames).len
  /\ Last(frames).index < Last(frames).take
  /\ frames' = [frames EXCEPT ![Len(frames)].index = @ + 1]
  /\ ty' = Last(frames).elem
  /\ pc' = "call"
  /\ UNCHANGED <<op, result, valuevars, xmlvars, nodevars>>
  /\ UNCHANGED <<read_mode, node_stack, first_struct, reader, visited>>

\* Seq::next_element_seed returns None to a visitor that needs an element.
InvalidLengthReturn ==
  /\ Accessing
  /\ Last(frames).index = Last(frames).len
  /\ Last(frames).index < Last(frames).take
  /\ Fail(Err(InvalidLength(Last(frames).index)), reader)
  /\ UNCHANGED <<op, valuevars, xmlvars, nodevars>>

\* A method that returns without self.read_mode = old_read_mode.
VisitorReturnsInArrayMode(fn, realign) ==
  /\ Accessing
  /\ Last(frames).fn = fn
  /\ Last(frames).index = Last(frames).take
  /\ reader' = IF realign THEN realign_reads(reader) ELSE reader
  /\ frames' = Front(frames)
  /\ pc' = ReturnPc(Front(frames))
  /\ IF Front(frames) = <<>> THEN result' = Ok(visited) ELSE UNCHANGED result
  /\ UNCHANGED <<op, valuevars, xmlvars, nodevars>>
  /\ UNCHANGED <<read_mode, node_stack, first_struct, ty, visited>>

\* The visitor has taken the last element and returns: the rest of the
\* method that called it.  realign tells whether realign_reads is called.
VisitorReturns(fn, realign) ==
  /\ Accessing
  /\ Last(frames).fn = fn
  /\ Last(frames).index = Last(frames).take
  /\ read_mode' = Last(frames).old_read_mode
  /\ reader' = IF realign THEN realign_reads(reader) ELSE reader
  /\ frames' = Front(frames)
  /\ pc' = ReturnPc(Front(frames))
  /\ IF Front(frames) = <<>> THEN result' = Ok(visited) ELSE UNCHANGED result
  /\ UNCHANGED <<op, valuevars, xmlvars, nodevars, node_stack, first_struct, ty, visited>>

\* Deserializer::deserialize_seq, after the visitor
DeserializeSeqReturn ==
  VisitorReturns("deserialize_seq", Last(frames).old_read_mode = "Single")

\* Deserializer::deserialize_tuple, after the visitor
DeserializeTupleReturn ==
  VisitorReturns("deserialize_tuple", Last(frames).old_read_mode = "Single")

\* Deserializer::deserialize_tuple_struct, after the visitor
DeserializeTupleStructReturn == VisitorReturns("deserialize_tuple_struct", TRUE)

NextDe ==
  \/ DeserializeBool \/ DeserializeByte \/ DeserializeLarge
  \/ DeserializeSeq \/ DeserializeTuple \/ DeserializeTupleStruct
  \/ NextElement \/ InvalidLengthReturn
  \/ DeserializeSeqReturn \/ DeserializeTupleReturn \/ DeserializeTupleStructReturn

(***************************************************************************)
(* The Deserializers the model starts with: a node on the stack, the data  *)
(* of its value in the buffer, and the Rust type deserialized from it.     *)
(***************************************************************************)
\* The method that reads one element of a StandardType.
MethodOf(inner) ==
  CHOOSE m \in ByteMethods \cup LargeMethods : MethodInner(m) = inner

ElementMethod(t) ==
  CASE t \in ScalarKonst \ {"Time"} -> MethodOf(ScalarInner(t))
    [] t = "Time" -> "i32"
    [] t \in {"Boolean"} \cup BoolKonst -> "bool"
    [] t \in S8Konst -> "i8"
    [] t \in U8Konst \cup {"Binary", "String"} -> "u8"
    [] t \in MultiKonst -> MethodOf(MultiInner(t))

\* The Rust type of one value of a StandardType: a primitive, or an array
\* [T; count].
RustType(t) ==
  IF StandardType[t].count > 1
  THEN TupleOf(StandardType[t].count, Prim(ElementMethod(t)))
  ELSE Prim(ElementMethod(t))

DeTypes ==
  (ScalarKonst \cup {"Boolean", "Binary", "String"})
    \cup {"U8_2", "S8_3", "U16_2", "S32_3", "U64_2", "Boolean2", "Boolean3"}

\* The bytes of the data buffer.
DataBytes(n) == PatternSeqs(ByteSamples, n, {1, n})

\* An array: its byte length B, then B bytes, or B bytes padded to a
\* multiple of 4, or one byte less than B.
ArrayData(t) ==
  UNION {{<<0, 0, 0, B>> \o d : d \in DataBytes(B) \cup DataBytes(AlignUp(B, 4))
                                       \cup DataBytes(IF B > 0 THEN B - 1 ELSE 0)} :
           B \in 0..(MaxChunks * NodeSize(t) + MaxExtra)}

InitDe ==
  /\ pc = "call"
  /\ op = "deserialize"
  /\ result = NoResult
  /\ ValueIdle
  /\ XmlIdle
  /\ NodeIdle
  /\ read_mode = "Single"
  /\ first_struct = TRUE
  /\ frames = <<>>
  /\ visited = <<>>
  /\ \E t \in DeTypes :
       \/ /\ NodeSize(t) > 0
          /\ node_stack = <<[node_type |-> t, is_array |-> FALSE]>>
          /\ ty \in {RustType(t)}
                \cup (IF StandardType[t].count > 1
                      THEN {TupleStructOf(StandardType[t].count, Prim(ElementMethod(t)))}
                      ELSE {})
          /\ \E d \in UNION {DataBytes(n) : n \in 0..(NodeSize(t) + MaxExtra)} :
               reader = NewReader(<<>>, d)
       \/ /\ node_stack = <<[node_type |-> t, is_array |-> TRUE]>>
          /\ ty \in {SeqOf(RustType(t))}
                \cup (IF StandardType[t].count > 1
                      THEN {RustType(t),
                            SeqOf(TupleStructOf(StandardType[t].count,
                                                Prim(ElementMethod(t))))}
                      ELSE {})
          /\ \E d \in ArrayData(t) :
               reader = NewReader(<<>>, d)
       \/ /\ node_stack = <<>>
          /\ ty \in {SeqOf(RustType(t)), RustType(t)}
          /\ reader = NewReader(<<>>, <<0, 0, 0, 1, 1>>)

SpecDe == InitDe /\ [][NextDe]_vars

(***************************************************************************)
(* Claims about TextXmlReader.                                             *)
(***************************************************************************)
\* The document is one empty element, after declarations and comments that
\* read without error.
RootIsEmpty ==
  /\ document # <<>>
  /\ Last(document).kind = "Empty"
  /\ \A i \in 1..(Len(document) - 1) :
       \/ document[i].kind = "Comment"
       \/ document[i].kind = "Decl"
            /\ (document[i].label = "" \/ from_label(document[i].label).kind = "Ok")

\* What handle_start makes of the root element.
RootStart == handle_start(encoding, Last(document))

\* C8: as_node_collection on a document whose root is an empty element (such
\* as <x a="1" b="2"/>) returns Ok(Some(collection)) for that element, its
\* attributes in the order of the document; it does not return Ok(None).
C8_RootEmptyElement ==
  (/\ Returned("as_node_collection")
   /\ RootIsEmpty
   /\ RootStart.kind = "Ok"
   /\ RootStart.value.count = 0
   /\ ~RootStart.value.size.some)
    => result = Ok(RootStart.value.collection)

HasCount(e) == \E i \in 1..Len(e.attrs) : e.attrs[i].ok /\ e.attrs[i].key = "__count"

\* C9: for every Start element that carries a __count attribute, whatever
\* its number (0 included), the reader makes a NodeDefinition with
\* is_array = true; an element without __count gets is_array = false.
C9_CountSetsArrayFlag ==
  [][(EventStart /\ Len(stack') > Len(stack)) =>
       Last(stack').collection.base.is_array = HasCount(NextEvent)]_vars

(***************************************************************************)
(* Claims about Deserializer::deserialize_seq, checked under SpecDe.       *)
(***************************************************************************)
\* The array byte length that deserialize_seq is about to read.
ArrayByteLength == U32(SubSeq(reader.data, reader.dword + 1, reader.dword + 4))

\* deserialize_seq is called on a typed array node whose byte length is in
\* the data and is no multiple of size * count.
SeqOfPartialLength ==
  /\ Calling("seq")
  /\ node_stack # <<>>
  /\ NodeSize(Last(node_stack).node_type) > 0
  /\ reader.dword + 4 <= Len(reader.data)
  /\ ArrayByteLength % NodeSize(Last(node_stack).node_type) # 0

\* C4: Deserializer::deserialize_seq, for a typed array node, returns an
\* error when the array byte length B read from the data is no multiple of
\* size * count, and gives its visitor no access of floor(B / (size * count))
\* elements.
C4_RejectsPartialLength ==
  [][(SeqOfPartialLength /\ DeserializeSeq)
       => pc' = "done" /\ result'.kind = "Err" /\ frames' = frames]_vars

(***************************************************************************)
(* Claims about the decoding of booleans, by Value::from_standard_type and *)
(* by Deserializer::deserialize_bool.                                      *)
(***************************************************************************)
InitDecode == InitValue \/ InitDe

NextDecode == NextValue \/ NextDe

SpecDecode == InitDecode /\ [][NextDecode]_vars

\* Value::from_standard_type decodes a bool or a bool vector of the right
\* length that has a byte other than 0x00 and 0x01.
BadBooleanValue ==
  /\ pc = "call" /\ op = "from_standard_type" /\ ~is_array
  /\ node_type \in {"Boolean"} \cup BoolKonst
  /\ Len(input) = NodeSize(node_type)
  /\ BadBooleans(input, NodeSize(node_type)) # {}

\* The place of the byte that deserialize_bool reads.
BooleanPlace == IF reader.byte % 4 = 0 THEN reader.dword ELSE reader.byte

\* deserialize_bool reads a byte other than 0x00 and 0x01.
BadBooleanRead ==
  /\ Calling("bool")
  /\ BooleanPlace < Len(reader.data)
  /\ reader.data[BooleanPlace + 1] \notin {0, 1}

\* Nothing is given to a visitor, and the byte cursor stands right behind
\* the boolean: no byte behind it has been read.
OnlyBooleanConsumed ==
  /\ visited' = visited
  /\ reader'.byte = BooleanPlace + 1
  /\ reader'.word = reader.word
  /\ reader'.dword = IF reader.byte % 4 = 0 THEN reader.dword + 4 ELSE reader.dword

\* C5: decoding a boolean from a byte other than 0x00 and 0x01 fails with
\* the invalid-boolean error InvalidBooleanInput(byte) on every path:
\* Value::from_standard_type for bool and the bool vectors (the first such
\* byte) and Deserializer::deserialize_bool, which gives nothing to its
\* visitor and reads nothing behind that boolean.
C5_InvalidBooleanOnEveryPath ==
  [][/\ (BadBooleanValue /\ FromStandardType)
          => result' = Err(InvalidBooleanInput(
                             input[FirstOf(BadBooleans(input, NodeSize(node_type)))]))
     /\ (BadBooleanRead /\ DeserializeBool)
          => /\ pc' = "done"
             /\ result' = Err(InvalidBooleanInput(reader.data[BooleanPlace + 1]))
             /\ OnlyBooleanConsumed]_vars

\* What holds of the code: the same, but deserialize_bool fails with an
\* Error::Message and not with the InvalidBooleanInput kind.
BadBooleanFails ==
  [][/\ (BadBooleanValue /\ FromStandardType)
          => result' = Err(InvalidBooleanInput(
                             input[FirstOf(BadBooleans(input, NodeSize(node_type)))]))
     /\ (BadBooleanRead /\ DeserializeBool)
          => /\ pc' = "done"
             /\ result' = Err(InvalidBooleanMessage(reader.data[BooleanPlace + 1]))
             /\ OnlyBooleanConsumed]_vars

\* Both paths have failed on a bad boolean.
BadBooleanFailed ==
  /\ pc = "done"
  /\ result.kind = "Err"
  /\ \/ op = "deserialize" /\ result.err.name = "Message"
          /\ result.err.message = "invalid value for boolean"
     \/ op = "from_standard_type" /\ ~is_array /\ result.err.name = "InvalidBooleanInput"

(***************************************************************************)
(* Claims about the node types and the value data that TextXmlReader       *)
(* gives to elements, checked under SpecXml.                               *)
(***************************************************************************)
HasType(e) == \E i \in 1..Len(e.attrs) : e.attrs[i].ok /\ e.attrs[i].key = "__type"

TypeAt(s, i) == s[i].collection.base.node_type

\* The event is handled without an error and without a return.
Handled(kind) ==
  /\ Reading(kind)
  /\ pc' = "call"
  /\ xml_reader' = xml_reader + 1

BinText ==
  /\ Reading("Text")
  /\ stack # <<>>
  /\ TypeAt(stack, Len(stack)) = "Binary"
  /\ ~Last(stack).collection.base.is_array
  /\ from_hex(NextEvent.text).kind = "Ok"

DecodedText == from_hex(NextEvent.text).value.data

SizeDiffers == Last(stack).size.some /\ Last(stack).size.v # Len(DecodedText)

\* C12: for a bin element with __size = s, text whose hex-decoded length
\* differs from s is rejected with a SizeMismatch error and the value data of
\* the element is left unchanged; when the length equals s, or there is no
\* __size, the value data becomes the decoded bytes.
C12_SizeMismatchOnBinSize ==
  [][BinText
       => IF SizeDiffers
          THEN /\ result'.kind = "Err"
               /\ result'.err.name = "SizeMismatch"
               /\ stack' = stack
          ELSE /\ pc' = "call"
               /\ Last(stack').collection.base.data.value_data = DecodedText]_vars

\* What holds of the code: the same with the InvalidState error.
BinSizeChecked ==
  [][BinText
       => IF SizeDiffers
          THEN result' = Err(InvalidState) /\ stack' = stack
          ELSE /\ pc' = "call"
               /\ Last(stack').collection.base.data.value_data = DecodedText]_vars

\* The attributes of a tag that quick_xml reads and that are none of __type,
\* __count and __size, in the order of the tag.
PlainAttributes(e) ==
  SelectSeq(e.attrs, LAMBDA a : a.ok /\ a.key \notin {"__type", "__count", "__size"})

\* The attribute deque holds the plain attributes of the tag in their order.
AttributesInOrder(collection, e) ==
  /\ Len(collection.attributes) = Len(PlainAttributes(e))
  /\ \A i \in 1..Len(PlainAttributes(e)) :
       /\ collection.attributes[i].data.key = PlainAttributes(e)[i].key
       /\ collection.attributes[i].data.value_data
            = Bytes(PlainAttributes(e)[i].value) \o <<0>>

ChildrenAt(s, i) == s[i].collection.children

\* C13: the attribute deque of an element holds its attributes other than
\* __type, __count and __size in the order of the tag, and the children
\* deque of every open element grows at its back only, by the element whose
\* End or Empty event has just been read, at every nesting depth.
C13_DocumentOrder ==
  [][/\ Handled("Start") => AttributesInOrder(Last(stack').collection, NextEvent)
     /\ (Handled("Empty") /\ stack # <<>>)
          => /\ AttributesInOrder(Last(ChildrenAt(stack', Len(stack))), NextEvent)
             /\ Last(ChildrenAt(stack', Len(stack))).base.data.key = NextEvent.name
             /\ Front(ChildrenAt(stack', Len(stack))) = ChildrenAt(stack, Len(stack))
     /\ (Handled("End") /\ Len(stack) > 1)
          => ChildrenAt(stack', Len(stack'))
               = Append(ChildrenAt(stack, Len(stack')), Last(stack).collection)
     /\ \A i \in 1..Min(Len(stack), Len(stack')) :
          /\ stack'[i].collection.attributes = stack[i].collection.attributes
          /\ ChildrenAt(stack', i) # ChildrenAt(stack, i)
               => /\ i = Len(stack')
                  /\ NextEvent.kind \in {"End", "Empty"}
                  /\ Front(ChildrenAt(stack', i)) = ChildrenAt(stack, i)]_vars

\* A root with two attributes and two different children, the first of
\* which has a child of its own or an attribute list of its own.
C13_Witness ==
  /\ pc = "done" /\ op = "as_node_collection"
  /\ result.kind = "Ok"
  /\ Len(result.value.children) = 2
  /\ result.value.children[1] # result.value.children[2]
  /\ \/ Len(result.value.attributes) = 2
     \/ Len(result.value.children[1].children) = 1

\* The value data is the bytes of the text and one NUL byte.
NulTerminated(value_data, txt) == value_data = Bytes(txt) \o <<0>>

\* The collection that handle_start has made of a tag: every attribute value
\* ends with the NUL, and a str element starts with the NUL alone.
StringsOfStart(collection, e) ==
  /\ \A i \in 1..Len(collection.attributes) :
       /\ collection.attributes[i].node_type = "Attribute"
       /\ NulTerminated(collection.attributes[i].data.value_data,
                        PlainAttributes(e)[i].value)
  /\ collection.base.node_type = "String" => collection.base.data.value_data = <<0>>

\* C14: every string payload that TextXmlReader builds is the text bytes and
\* one NUL byte: the value of an attribute, the text of a str element or of
\* an element without a type; a str element that ends without a Text event
\* has the single byte 00 as value data.
C14_StringsEndWithNul ==
  [][/\ Handled("Start") => StringsOfStart(Last(stack').collection, NextEvent)
     /\ (Handled("Empty") /\ stack # <<>>)
          => StringsOfStart(Last(ChildrenAt(stack', Len(stack))), NextEvent)
     /\ (Handled("Text") /\ stack # <<>>
           /\ TypeAt(stack, Len(stack)) \in {"String", "NodeStart"})
          => NulTerminated(Last(stack').collection.base.data.value_data, NextEvent.text)
     /\ (Reading("End") /\ stack # <<>> /\ xml_reader > 0
           /\ document[xml_reader].kind = "Start"
           /\ TypeAt(stack, Len(stack)) = "String")
          => /\ Last(stack).collection.base.data.value_data = <<0>>
             /\ Len(stack) = 1
                  => result'.value.base.data.value_data = <<0>>]_vars

\* A str element with two attributes has ended without a text.
C14_Witness ==
  /\ pc = "done" /\ op = "as_node_collection"
  /\ result.kind = "Ok"
  /\ result.value.base.node_type = "String"
  /\ result.value.base.data.value_data = <<0>>
  /\ Len(result.value.attributes) = 2
  /\ result.value.attributes[1].data.value_data = <<49, 0>>

(***************************************************************************)
(* Claims about the byte order of Value::to_bytes, checked under SpecValue.*)
(***************************************************************************)
\* The integer types: the integers, time, ip4 and the integer vectors.
IntegerTypes ==
  {t \in FixedSizeTypes :
     \/ t \in ScalarKonst /\ ScalarInner(t).kind # "f"
     \/ t \in {"Ip4"} \cup S8Konst \cup U8Konst
     \/ t \in MultiKonst /\ MultiInner(t).kind # "f"}

\* The width in bytes of an integer of type t.
IntegerWidth(t) == IF t = "Ip4" THEN 1 ELSE StandardType[t].size

\* The integers of a value in index order: of the elements of an array, and
\* of the places of a vector.
RECURSIVE Integers(_)
Integers(v) ==
  CASE v.konst = "Array" -> Flatten([i \in 1..Len(v.data) |-> Integers(v.data[i])])
    [] v.konst \in ScalarKonst -> <<v.data>>
    [] OTHER -> v.data

\* Byte j, counted from the most significant, of the two's complement of e
\* in w bytes; an integer of more than 2 bytes is held as its 16-bit limbs,
\* the most significant first.
ByteOf(e, w, j) ==
  IF w <= 2
  THEN ((e % (IF w = 1 THEN 256 ELSE 65536)) \div (IF j = w THEN 1 ELSE 256)) % 256
  ELSE IF j % 2 = 1 THEN e[(j + 1) \div 2] \div 256 ELSE e[j \div 2] % 256

BigEndianBytes(es, w) ==
  [k \in 1..(Len(es) * w) |-> ByteOf(es[(k - 1) \div w + 1], w, ((k - 1) % w) + 1)]

U16Array123 == MkArray("U16", <<MkValue("U16", 1), MkValue("U16", 2), MkValue("U16", 3)>>)

\* C15: Value::to_bytes writes every integer most-significant byte first, in
\* two's complement, element by element in index order for vectors and
\* arrays: s32 -1 gives FF FF FF FF, ip4 127.0.0.1 gives 7F 00 00 01 and the
\* u16 array [1, 2, 3] gives 00 01 00 02 00 03.
C15_BigEndianInIndexOrder ==
  (pc = "done" /\ op \in {"to_bytes", "array_to_bytes"} /\ node_type \in IntegerTypes)
    => /\ result = Ok(BigEndianBytes(Integers(value), IntegerWidth(node_type)))
       /\ (value.konst = "S32" /\ value.data = NumToLimbs(-1, 2))
            => result = Ok(<<255, 255, 255, 255>>)
       /\ (value.konst = "Ip4" /\ value.data = <<127, 0, 0, 1>>)
            => result = Ok(<<127, 0, 0, 1>>)
       /\ (value.konst = "Array" /\ node_type = "U16" /\ value = U16Array123)
            => result = Ok(<<0, 1, 0, 2, 0, 3>>)

\* The u16 array [1, 2, 3] has been encoded.
C15_Witness ==
  /\ Returned("array_to_bytes")
  /\ node_type = "U16"
  /\ value = U16Array123
  /\ result = Ok(<<0, 1, 0, 2, 0, 3>>)

\* An array of three two-place vectors, not all the same, has been encoded.
ArraysEncoded ==
  /\ Returned("array_to_bytes")
  /\ node_type = "S16_2"
  /\ Len(value.data) = 3
  /\ value.data[1] # value.data[2]

(***************************************************************************)
(* impl fmt::Display for Value, for the types whose text is no float.      *)
(***************************************************************************)
\* The remainder of the first k limbs divided by 10.
RECURSIVE Rem10(_, _)
Rem10(limbs, k) ==
  IF k = 0 THEN 0 ELSE (Rem10(limbs, k - 1) * 65536 + limbs[k]) % 10

Quot10(limbs) ==
  [k \in 1..Len(limbs) |-> (Rem10(limbs, k - 1) * 65536 + limbs[k]) \div 10]

IsZero(limbs) == \A k \in 1..Len(limbs) : limbs[k] = 0

\* The decimal digits of a number above 0, none for 0.
RECURSIVE LimbsToDecimal(_)
LimbsToDecimal(limbs) ==
  IF IsZero(limbs) THEN <<>>
  ELSE Append(LimbsToDecimal(Quot10(limbs)), Digits[Rem10(limbs, Len(limbs)) + 1])

\* The text of the magnitude, with the sign of a negative number.
SignedDecimal(negative, magnitude) ==
  (IF negative THEN <<"-">> ELSE <<>>)
    \o (IF IsZero(magnitude) THEN <<"0">> ELSE LimbsToDecimal(magnitude))

\* fmt::Display of an integer: e is a number for 1 and 2 bytes, and the
\* limbs of the two's complement for 4 and 8 bytes.
IntegerToString(inner, e) ==
  IF inner.width <= 2
  THEN SignedDecimal(e < 0, <<IF e < 0 THEN 0 - e ELSE e>>)
  ELSE IF inner.kind = "i" /\ e[1] >= 32768
  THEN SignedDecimal(TRUE, Negate(e))
  ELSE SignedDecimal(FALSE, e)

\* Mutant of ByteToHex: write!(f, "{:x}", n), without the padding.
ByteToHexUnpadded(n) ==
  IF n < 16 THEN <<HexDigits[n + 1]>> ELSE <<HexDigits[(n \div 16) + 1], HexDigits[(n % 16) + 1]>>

\* write!(f, "{:02x}", n)
ByteToHex(n) == <<HexDigits[(n \div 16) + 1], HexDigits[(n % 16) + 1]>>

\* The parts with sep between them.
Joined(parts, sep) == IF parts = <<>> THEN <<>> ELSE Join(parts, sep)

BooleanToString(b) == IF b THEN <<"1">> ELSE <<"0">>

OfEach(inner, es) == [i \in 1..Len(es) |-> IntegerToString(inner, es[i])]

RECURSIVE Value_to_string(_)
Value_to_string(v) ==
  LET k == v.konst
  IN CASE k \in ScalarKonst -> IntegerToString(ScalarInner(k), v.data)
       [] k \in {"String", "Attribute"} -> v.data
       [] k = "Ip4" -> Joined(OfEach([kind |-> "u", width |-> 1], v.data), ".")
       [] k \in S8Konst -> Joined(OfEach([kind |-> "i", width |-> 1], v.data), " ")
       [] k \in U8Konst -> Joined(OfEach([kind |-> "u", width |-> 1], v.data), " ")
       [] k \in MultiKonst -> Joined(OfEach(MultiInner(k), v.data), " ")
       [] k \in BoolKonst ->
            Joined([i \in 1..Len(v.data) |-> BooleanToString(v.data[i])], " ")
       [] k = "Binary" -> Flatten([i \in 1..Len(v.data) |-> ByteToHex(v.data[i])])
       [] k = "Boolean" -> BooleanToString(v.data)
       [] k = "Array" ->
            Joined([i \in 1..Len(v.data) |-> Value_to_string(v.data[i])], " ")
       [] k = "Node" -> <<>>

(***************************************************************************)
(* The text round trip: v.to_string(), then Value::from_string on it.      *)
(***************************************************************************)
MaxBinary == 2

RoundTripTypes == IntegerTypes \cup {"Boolean", "Binary"} \cup BoolKonst

TextValues(t) ==
  IF t = "Binary"
  THEN UNION {{MkValue(t, d) : d \in PatternSeqs({0, 10, 171, 255}, n, 1..n)} :
                n \in 0..MaxBinary}
  ELSE Values(t)

InitDisplay ==
  /\ pc = "call"
  /\ op = "to_string"
  /\ XmlIdle
  /\ DeIdle
  /\ NodeIdle
  /\ input = <<>>
  /\ text = <<>>
  /\ result = NoResult
  /\ is_array = FALSE
  /\ arr_count = 1
  /\ \E t \in RoundTripTypes : node_type = t /\ value \in TextValues(t)

\* value.to_string()
ValueToString ==
  /\ pc = "call" /\ op = "to_string"
  /\ text' = Value_to_string(value)
  /\ pc' = "done"
  /\ UNCHANGED <<op, result, node_type, is_array, arr_count, input, value>>
  /\ UNCHANGED <<xmlvars, devars, nodevars>>

\* Value::from_string(value.standard_type(), text, false, 1) on the text that
\* value.to_string() has just returned.
FromStringOfValue ==
  /\ pc = "done" /\ op = "to_string"
  /\ op' = "text_round_trip"
  /\ result' = Value_from_string(standard_type(value), text, is_array, arr_count)
  /\ UNCHANGED <<pc, node_type, is_array, arr_count, input, text, value>>
  /\ UNCHANGED <<xmlvars, devars, nodevars>>

NextDisplay == ValueToString \/ FromStringOfValue

SpecDisplay == InitDisplay /\ [][NextDisplay]_vars

\* C16: for every non-array Value v of an integer, bool, ip4, time, binary or
\* integer / bool vector type, Value::from_string(v.standard_type(),
\* v.to_string(), false, 1) returns Ok(v).
C16_TextRoundTrip == Returned("text_round_trip") => result = Ok(value)

\* The greatest u64 and 0 have gone through the round trip as a vector.
C16_Witness ==
  /\ Returned("text_round_trip")
  /\ value.konst = "U64_2"
  /\ value.data[1] = <<65535, 65535, 65535, 65535>>
  /\ value.data[2] = <<0, 0, 0, 0>>
  /\ Len(text) = 22
  /\ result = Ok(value)

\* Texts that value.to_string() has returned.
DisplayedTexts ==
  /\ (pc = "done" /\ value.konst = "S32" /\ value.data = <<32768, 0>>)
       => text = <<"-", "2", "1", "4", "7", "4", "8", "3", "6", "4", "8">>
  /\ (pc = "done" /\ value.konst = "U32" /\ value.data = <<65535, 65535>>)
       => text = <<"4", "2", "9", "4", "9", "6", "7", "2", "9", "5">>
  /\ (pc = "done" /\ value.konst = "S16" /\ value.data = -32768)
       => text = <<"-", "3", "2", "7", "6", "8">>
  /\ (pc = "done" /\ value.konst = "Ip4" /\ value.data = <<127, 0, 0, 1>>)
       => text = <<"1", "2", "7", ".", "0", ".", "0", ".", "1">>
  /\ (pc = "done" /\ value.konst = "Binary" /\ value.data = <<10, 171>>)
       => text = <<"0", "a", "a", "b">>
  /\ (pc = "done" /\ value.konst = "Boolean3" /\ value.data = <<TRUE, FALSE, TRUE>>)
       => text = <<"1", " ", "0", " ", "1">>

(***************************************************************************)
(* Claims about events that as_node_collection reads with an empty stack.  *)
(***************************************************************************)
\* A Text or End event is read while no element is open.
Orphan(kind) == Reading(kind) /\ stack = <<>>

\* C17: in as_node_collection a Text event read with an empty stack and an
\* End event read with an empty stack are reported as InvalidState; neither
\* is silently skipped.
C17_OrphanEventIsInvalidState ==
  [][(Orphan("Text") \/ Orphan("End"))
       => (pc' = "done" /\ result' = Err(InvalidState))]_vars

\* What the code does with them: the event is skipped, nothing is returned
\* and the stack stays empty.
OrphanEventSkipped ==
  [][(Orphan("Text") \/ Orphan("End"))
       => (pc' = "call" /\ result' = result /\ stack' = <<>>
             /\ xml_reader' = xml_reader + 1)]_vars

\* A call has returned after it skipped an End or a Text event that came
\* before the root element.
OrphanSkipped ==
  /\ Returned("as_node_collection")
  /\ document[1].kind \in {"Text", "End"}
  /\ result.kind = "Ok"

(***************************************************************************)
(* Claims about an empty element that has a count or a size.               *)
(***************************************************************************)
\* handle_start has returned a count above 0 or a size above 0.
SignalsData(start) ==
  /\ start.kind = "Ok"
  /\ start.value.count > 0 \/ (start.value.size.some /\ start.value.size.v > 0)

EmptyWithData == Reading("Empty") /\ SignalsData(handle_start(encoding, NextEvent))

\* C18: every malformed input is surfaced as an Err; in particular an Empty
\* element with __count > 0 or __size > 0 makes as_node_collection return an
\* error, it does not abort.
C18_EmptyWithDataIsErr ==
  [][EmptyWithData => (pc' = "done" /\ result'.kind = "Err")]_vars

\* What the code does: one of the two assert! fails, and only there.
EmptyWithDataAborts ==
  [][(EmptyWithData => (pc' = "done" /\ result' = Panic))
       /\ (result' = Panic => EmptyWithData)]_vars

\* The call has ended in the failed assertion on <x __count="1"/> and
\* on <x __size="1"/>.
EmptyAborted ==
  /\ Returned("as_node_collection")
  /\ result = Panic
  /\ document[Len(document)].kind = "Empty"
  /\ \E i \in 1..Len(document[Len(document)].attrs) :
        document[Len(document)].attrs[i] = Attr("__size", <<"1">>)

(***************************************************************************)
(* Claims about the array decoders on a type whose size * count is 0.      *)
(***************************************************************************)
\* One of the three array decoders is called on a type of element size 0:
\* Value::from_standard_type with is_array, ValueArray::from_standard_type,
\* or deserialize_seq once the byte length of the array has been read.
ZeroSizeArrayCall ==
  \/ FromStandardType /\ is_array /\ NodeSize(node_type) = 0
  \/ ArrayFromStandardType /\ NodeSize(node_type) = 0
  \/ /\ DeserializeSeq
     /\ node_stack # <<>>
     /\ NodeSize(Last(node_stack).node_type) = 0
     /\ read_exact(reader, 4, ArrayLengthRead).kind = "Ok"

\* C19: on a type with size * count = 0 (str, bin) the three array decoders
\* never divide or chunk by zero: they return Ok(None) or an error value.
C19_ZeroSizeArraysReturn ==
  [][ZeroSizeArrayCall => (pc' = "done" /\ result'.kind \in {"None", "Err"})]_vars

\* What the code does: the division by zero, or chunks(0), panics.
ZeroSizeArraysPanic ==
  [][ZeroSizeArrayCall => (pc' = "done" /\ result' = Panic)]_vars

\* Each of the three decoders has panicked on a str or bin array.
ZeroSizeArrayPanicked(f) ==
  /\ Returned(f)
  /\ result = Panic
  /\ IF f = "deserialize"
     THEN node_stack # <<>> /\ Last(node_stack).node_type \in {"String", "Binary"}
     ELSE node_type \in {"String", "Binary"}

ValueArrayPanicked == ZeroSizeArrayPanicked("array_from_standard_type")

ValueChunksPanicked == ZeroSizeArrayPanicked("from_standard_type")

DeserializeSeqPanicked == ZeroSizeArrayPanicked("deserialize")

(***************************************************************************)
(* Node: its attributes are an IndexMap<String, String>, held here as the  *)
(* sequence of its entries in the order in which the map iterates.         *)
(***************************************************************************)
\* Option<String>::None and Some
NoString == [some |-> FALSE, v |-> ""]

SomeString(v) == [some |-> TRUE, v |-> v]

\* Option<IndexMap<String, String>>::None and Some
NoAttributes == [some |-> FALSE, entries |-> <<>>]

SomeAttributes(entries) == [some |-> TRUE, entries |-> entries]

\* The place of key among the entries, 0 if it has none.
IndexOf(entries, key) ==
  IF \E i \in 1..Len(entries) : entries[i].key = key
  THEN CHOOSE i \in 1..Len(entries) : entries[i].key = key
  ELSE 0

\* Mutant of insert: the entry of a key that is there moves to the end.
insert_moving(entries, key, val, i) ==
  IF i = 0
  THEN [map |-> Append(entries, [key |-> key, value |-> val]), old |-> NoString]
  ELSE [map |-> Append(SubSeq(entries, 1, i - 1) \o SubSeq(entries, i + 1, Len(entries)),
                       [key |-> key, value |-> val]),
        old |-> SomeString(entries[i].value)]

\* IndexMap::insert with i = IndexOf(entries, key): the map after the call
\* and the value returned.
insert(entries, key, val, i) ==
  IF i = 0
  THEN [map |-> Append(entries, [key |-> key, value |-> val]), old |-> NoString]
  ELSE [map |-> [entries EXCEPT ![i].value = val],
        old |-> SomeString(entries[i].value)]

\* for (key, value) in attrs.iter() { attributes.insert(..) }, from the
\* first pair on.
RECURSIVE convert_attributes(_)
convert_attributes(attrs) ==
  IF attrs = <<>> THEN <<>>
  ELSE LET done == convert_attributes(Front(attrs))
           last == Last(attrs)
       IN insert(done, last.key, last.value, IndexOf(done, last.key)).map

\* Option<Vec<Node>>::None and Some
NoChildren == [some |-> FALSE, nodes |-> <<>>]

SomeChildren(nodes) == [some |-> TRUE, nodes |-> nodes]

\* Option<Value>::None and Some
NoNodeValue == [some |-> FALSE, held |-> NoValue]

SomeValue(v) == [some |-> TRUE, held |-> v]

MkNode(key, attributes, children, val) ==
  [key |-> key, attributes |-> attributes, children |-> children, value |-> val]

\* Node::new(key)
Node_new(key) == MkNode(key, NoAttributes, NoChildren, NoNodeValue)

\* Node::with_attrs(key, attrs)
Node_with_attrs(key, attrs) ==
  MkNode(key, SomeAttributes(convert_attributes(attrs)), NoChildren, NoNodeValue)

\* Node::with_value(key, value)
Node_with_value(key, val) == MkNode(key, NoAttributes, NoChildren, SomeValue(val))

\* Node::with(key, attrs, nodes)
Node_with(key, attrs, nodes) ==
  MkNode(key, SomeAttributes(convert_attributes(attrs)), SomeChildren(nodes), NoNodeValue)

\* self.attributes.get_or_insert_with(Default::default)
get_or_insert_with_default(attributes) ==
  IF attributes.some THEN attributes.entries ELSE <<>>

\* Node::set_attr(key, value) on the node n: the node after the call and
\* the value returned.
set_attr(n, key, val) ==
  LET attributes == get_or_insert_with_default(n.attributes)
      r == insert(attributes, key, val, IndexOf(attributes, key))
  IN [node |-> [n EXCEPT !.attributes = SomeAttributes(r.map)], old |-> r.old]

\* Node::set_key(key)
set_key(n, key) == [n EXCEPT !.key = key]

\* Mutant of append_child: the value of the node is taken away.
append_child_taking(n, child) ==
  [n EXCEPT !.children = SomeChildren(Append(n.children.nodes, child)),
            !.value = NoNodeValue]

\* Node::append_child(value): get_or_insert_with(Default::default), push
append_child(n, child) ==
  [n EXCEPT !.children = SomeChildren(Append(n.children.nodes, child))]

\* Node::set_value(value): mem::replace(&mut self.value, value)
set_value(n, val) == [node |-> [n EXCEPT !.value = val], old |-> n.value]

(***************************************************************************)
(* The calls made on a Node.                                               *)
(***************************************************************************)
MaxAttrs == 3

AttrKeys == {"a", "b", "c"}

AttrValues == {"1", "2"}

AttrPairs == {[key |-> k, value |-> v] : k \in AttrKeys, v \in AttrValues}

AttrSlices == UNION {[1..n -> AttrPairs] : n \in 0..MaxAttrs}

\* append_child is called while the node has fewer children than this.
MaxChildNodes == 2

NodeKeys == {"x", "k"}

NodeValues == {MkValue("U8", 1), MkValue("S16", -1)}

OptionValues == {NoNodeValue} \cup {SomeValue(v) : v \in NodeValues}

\* What a function without a return value returns.
Unit == [kind |-> "Unit"]

InitNode ==
  /\ pc = "call"
  /\ op \in {"Node::new", "Node::with_attrs", "Node::with", "Node::with_value"}
  /\ result = NoResult
  /\ ValueIdle
  /\ XmlIdle
  /\ DeIdle
  /\ node = [key |-> ""]
  /\ node_attrs \in IF op \in {"Node::new", "Node::with_value"} THEN {<<>>} ELSE AttrSlices

Constructed(n) ==
  /\ node' = n
  /\ pc' = "done"
  /\ UNCHANGED <<op, result, node_attrs, valuevars, xmlvars, devars>>

\* Node::new("x")
New == pc = "call" /\ op = "Node::new" /\ Constructed(Node_new("x"))

\* Node::with_attrs("x", node_attrs)
WithAttrs ==
  pc = "call" /\ op = "Node::with_attrs" /\ Constructed(Node_with_attrs("x", node_attrs))

\* Node::with("x", node_attrs, vec![Node::new("y")])
With ==
  pc = "call" /\ op = "Node::with"
    /\ Constructed(Node_with("x", node_attrs, <<Node_new("y")>>))

\* Node::with_value("x", value)
WithValue ==
  pc = "call" /\ op = "Node::with_value"
    /\ \E v \in NodeValues : Constructed(Node_with_value("x", v))

SetAttrReturns(r) ==
  /\ node' = r.node
  /\ result' = r.old
  /\ op' = "set_attr"
  /\ UNCHANGED <<pc, node_attrs, valuevars, xmlvars, devars>>

\* node.set_attr(key, value)
SetAttrOf(key, val) == pc = "done" /\ SetAttrReturns(set_attr(node, key, val))

SetAttr == \E key \in AttrKeys, val \in AttrValues : SetAttrOf(key, val)

\* A call of f on the node has returned r and left the node n.
NodeCallReturns(f, n, r) ==
  /\ pc = "done"
  /\ node' = n
  /\ result' = r
  /\ op' = f
  /\ UNCHANGED <<pc, node_attrs, valuevars, xmlvars, devars>>

\* node.set_key(key)
SetKeyOf(key) == NodeCallReturns("set_key", set_key(node, key), Unit)

SetKey == \E key \in NodeKeys : SetKeyOf(key)

\* node.append_child(Node::new("y"))
AppendChild ==
  /\ pc = "done"
  /\ Len(node.children.nodes) < MaxChildNodes
  /\ NodeCallReturns("append_child", append_child(node, Node_new("y")), Unit)

SetValueReturns(r) == NodeCallReturns("set_value", r.node, r.old)

\* node.set_value(value)
SetValueOf(val) == SetValueReturns(set_value(node, val))

SetValue == \E val \in OptionValues : SetValueOf(val)

NextNode ==
  \/ New \/ WithAttrs \/ With \/ WithValue
  \/ SetAttr \/ SetKey \/ AppendChild \/ SetValue

SpecNode == InitNode /\ [][NextNode]_vars

(***************************************************************************)
(* Claims about the order of the attributes of a Node.                     *)
(***************************************************************************)
\* The keys in the order in which the attributes iterate.
KeysOf(n) == [i \in 1..Len(n.attributes.entries) |-> n.attributes.entries[i].key]

\* The value of the attribute key, "" if there is none.
ValueOf(n, key) ==
  IF \E i \in 1..Len(n.attributes.entries) : n.attributes.entries[i].key = key
  THEN (CHOOSE e \in {n.attributes.entries[i] : i \in 1..Len(n.attributes.entries)} :
          e.key = key).value
  ELSE ""

\* The places of the slice where a key stands for the first time, and for
\* the last time.
IsFirst(attrs, i) == \A j \in 1..(i - 1) : attrs[j].key # attrs[i].key

IsLast(attrs, i) == \A j \in (i + 1)..Len(attrs) : attrs[j].key # attrs[i].key

FirstKeys(attrs) ==
  LET firsts == SelectSeq([i \in 1..Len(attrs) |-> i], LAMBDA i : IsFirst(attrs, i))
  IN [k \in 1..Len(firsts) |-> attrs[firsts[k]].key]

\* The attributes of n are the keys of the slice in the order of their
\* first insertion, each with the value inserted last.
BuiltFrom(n, attrs) ==
  /\ n.attributes.some
  /\ KeysOf(n) = FirstKeys(attrs)
  /\ \A i \in 1..Len(attrs) : IsLast(attrs, i) => ValueOf(n, attrs[i].key) = attrs[i].value

\* set_attr(key, value) has taken the node from n to m and returned old.
AttrSet(n, m, old, key, val) ==
  /\ m.attributes.some
  /\ ValueOf(m, key) = val
  /\ \A k \in AttrKeys \ {key} : ValueOf(m, k) = ValueOf(n, k)
  /\ IF \E i \in 1..Len(KeysOf(n)) : KeysOf(n)[i] = key
     THEN KeysOf(m) = KeysOf(n) /\ old = SomeString(ValueOf(n, key))
     ELSE KeysOf(m) = Append(KeysOf(n), key) /\ old = NoString

\* C20: the attributes of a Node iterate in the order of first insertion:
\* Node::with_attrs and Node::with keep the order of the slice; set_attr on a
\* new key appends it last; set_attr on a key that is there keeps its place,
\* replaces its value and returns the value it had.
C20_FirstInsertionOrder ==
  [][/\ (WithAttrs \/ With) => BuiltFrom(node', node_attrs)
     /\ \A key \in AttrKeys, val \in AttrValues :
          SetAttrOf(key, val) => AttrSet(node, node', result', key, val)]_vars

\* Built from [(b, 1), (a, 1), (b, 2)], then set_attr(c, ..) and
\* set_attr(b, 1): the keys are b, a, c and the last call returned "2".
C20_Witness ==
  /\ Returned("set_attr")
  /\ node_attrs = <<[key |-> "b", value |-> "1"], [key |-> "a", value |-> "1"],
                    [key |-> "b", value |-> "2"]>>
  /\ KeysOf(node) = <<"b", "a", "c">>
  /\ ValueOf(node, "b") = "1"
  /\ result = SomeString("2")

\* set_attr on a Node::new, which has no attributes yet.
AttrSetOnNew ==
  /\ Returned("set_attr")
  /\ ~node.children.some
  /\ node_attrs = <<>>
  /\ KeysOf(node) = <<"c", "a">>

(***************************************************************************)
(* Claims about the value of a Node.                                       *)
(***************************************************************************)
\* A call on the node other than set_value.
OtherNodeCall == SetKey \/ SetAttr \/ AppendChild

\* C21: a node holds at most one direct value: set_value(v) replaces the
\* stored value with v, returns the previous one and leaves key, attributes
\* and children unchanged; set_key, set_attr and append_child leave the
\* value unchanged.
C21_OneDirectValue ==
  [][/\ \A val \in OptionValues :
          SetValueOf(val) =>
            /\ node'.value = val
            /\ result' = node.value
            /\ node'.key = node.key
            /\ node'.attributes = node.attributes
            /\ node'.children = node.children
     /\ OtherNodeCall => node'.value = node.value
     /\ pc' = "done" => node'.value \in OptionValues]_vars

\* A node with attributes and a child has had its value replaced:
\* set_value returned the value set before.
C21_Witness ==
  /\ Returned("set_value")
  /\ node.value = SomeValue(MkValue("S16", -1))
  /\ result = SomeValue(MkValue("U8", 1))
  /\ node.children.some /\ Len(node.children.nodes) = 2
  /\ Len(node.attributes.entries) = 2
  /\ node.key = "k"

(***************************************************************************)
(* Claims about the Value::Array values that Value::from_standard_type and *)
(* Value::from_string build.                                               *)
(***************************************************************************)
InitArrays == InitValue \/ InitText

NextArrays == NextValue \/ NextText

SpecArrays == InitArrays /\ [][NextArrays]_vars

\* One of the two functions has returned a Value::Array.
ArrayReturned(f) ==
  /\ Returned(f)
  /\ result.kind = "Ok"
  /\ result.value.konst = "Array"

\* C22: every Value::Array(tag, xs) that Value::from_standard_type or
\* Value::from_string returns with is_array = true has the requested type as
\* its tag, every x in xs has standard_type() = tag, and no x is an Array.
C22_ArrayElementsHaveTag ==
  \A f \in {"from_standard_type", "from_string"} :
    ArrayReturned(f)
      => /\ is_array
         /\ result.value.node_type = node_type
         /\ \A i \in 1..Len(result.value.data) :
              /\ result.value.data[i].konst # "Array"
              /\ standard_type(result.value.data[i]) = node_type

\* from_string has returned an array of two vectors.
C22_Witness ==
  /\ ArrayReturned("from_string")
  /\ node_type = "U16_2"
  /\ Len(result.value.data) = 2
  /\ result.value.data[1].konst = "U16_2"

\* from_standard_type has returned an array of two bool vectors.
ArrayFromBytes ==
  /\ ArrayReturned("from_standard_type")
  /\ node_type = "Boolean2"
  /\ Len(result.value.data) = 2
  /\ result.value.data[2].konst = "Boolean2"

(***************************************************************************)
(* Claims about realign_reads after an array, a tuple or a tuple struct.   *)
(***************************************************************************)
\* The visitor of an array, tuple or tuple struct has taken its last
\* element and the method that called it returns.
ArrayReadCompletes(fns) ==
  /\ Accessing
  /\ Last(frames).fn \in fns
  /\ Last(frames).index = Last(frames).take
  /\ frames' = Front(frames)

ArrayMethods == {"deserialize_seq", "deserialize_tuple", "deserialize_tuple_struct"}

\* The cursors after the return: realigned when the read mode is back to
\* Single, left alone when it is back to Array.
RealignedIfOutermost ==
  reader' = IF read_mode' = "Single" THEN realign_reads(reader) ELSE reader

\* C25: realign_reads is called when and only when an outermost array or
\* tuple read completes (read mode restored to Single); an array, tuple or
\* tuple struct that completes inside another array (restored mode Array)
\* never realigns the data cursors.
C25_RealignOnlyOutermost ==
  [][ArrayReadCompletes(ArrayMethods) => RealignedIfOutermost]_vars

\* What holds: deserialize_seq and deserialize_tuple realign only when the
\* mode is back to Single, deserialize_tuple_struct realigns always.
RealignExceptTupleStruct ==
  [][/\ ArrayReadCompletes({"deserialize_seq", "deserialize_tuple"})
          => RealignedIfOutermost
     /\ ArrayReadCompletes({"deserialize_tuple_struct"})
          => reader' = realign_reads(reader)]_vars

\* A tuple struct inside an array has completed at a place that is no
\* multiple of 4, and the cursors have been moved up.
NestedTupleStructRealigned ==
  /\ pc = "access"
  /\ Len(frames) = 1
  /\ ty.k = "u8"
  /\ frames[1].elem.k = "tuple_struct"
  /\ frames[1].index = 1
  /\ Len(visited) = 2
  /\ reader.dword = 8

(***************************************************************************)
(* Claims about the reads of array elements.                               *)
(***************************************************************************)
\* The size in bytes of what a primitive's method reads.
ElementSize(m) == IF m = "bool" THEN NodeSize("Boolean") ELSE MethodInner(m).width

\* A primitive of one of the methods ms is deserialized in Array read mode
\* and its visitor is given the value.
ArrayElementRead(ms) ==
  /\ pc = "call" /\ op = "deserialize"
  /\ ty.k \in ms
  /\ read_mode = "Array"
  /\ Len(visited') = Len(visited) + 1

\* The read was made at the main cursor and took size bytes, no more.
ReadAtCursor(size) ==
  /\ reader' = [reader EXCEPT !.dword = @ + size]
  /\ Last(visited').value =
       IF ty.k = "bool" THEN reader.data[reader.dword + 1] = 1
       ELSE ReadBE(MethodInner(ty.k), SubSeq(reader.data, reader.dword + 1, reader.dword + size))

\* C26: in Array read mode every array element of every element type (u8 /
\* i8, the 16-, 32- and 64-bit integers, floats and bool) is read directly at
\* the data cursor and consumes exactly its size in bytes, with no alignment
\* step; get_aligned is used only in Single mode.
C26_ArrayElementsUnaligned ==
  [][ArrayElementRead(ByteMethods \cup LargeMethods \cup {"bool"})
       => ReadAtCursor(ElementSize(ty.k))]_vars

\* What holds: the numbers are read at the cursor, a bool is read by
\* get_aligned in Array mode as well.
NumbersUnalignedBoolAligned ==
  [][/\ ArrayElementRead(ByteMethods \cup LargeMethods)
          => ReadAtCursor(ElementSize(ty.k))
     /\ ArrayElementRead({"bool"})
          => reader' = get_aligned(reader, 1).value.reader]_vars

\* The second bool of an array has been read: the byte cursor has moved in
\* the window that the first read opened.
BoolElementAligned ==
  /\ pc = "access"
  /\ read_mode = "Array"
  /\ Len(visited) = 2
  /\ Last(visited).m = "bool"
  /\ reader.byte = reader.dword - 2

(***************************************************************************)
(* The node buffer of the reader: the tags and the identifiers of the node *)
(* section, in order.  A tag carries its StandardType and the array flag;  *)
(* every tag but NodeEnd and FileEnd is followed by one identifier.  The   *)
(* reader keeps the last tag it has read.                                  *)
(***************************************************************************)
Tag(t, a) == [k |-> "tag", node_type |-> t, is_array |-> a]

Name(s) == [k |-> "name", name |-> s]

NoNodeType == [some |-> FALSE]

SomeNodeType(t, a) == [some |-> TRUE, node_type |-> t, is_array |-> a]

NodeTypeRead == [name |-> "NodeTypeRead"]

NodeIdentifierRead == [name |-> "NodeIdentifierRead"]

StringLengthRead == [name |-> "StringLengthRead"]

\* KbinErrorKind::TypeMismatch(expected, got)
TypeMismatch(expected, got) ==
  [name |-> "TypeMismatch", expected |-> expected, got |-> got]

\* Whether the node cursor is at a token of kind k.
NodeCursorAt(rd, k) == rd.node < Len(rd.nodes) /\ rd.nodes[rd.node + 1].k = k

\* reader.peek_node_type(): the tag at the node cursor, which stays.  The
\* documents of the model never make the reader take an identifier for a
\* tag or a tag for an identifier.
peek_node_type(rd) ==
  IF NodeCursorAt(rd, "tag")
  THEN Ok([node_type |-> rd.nodes[rd.node + 1].node_type,
           is_array |-> rd.nodes[rd.node + 1].is_array])
  ELSE Err(NodeTypeRead)

\* reader.read_node_type(): the tag at the node cursor, which moves past it;
\* the reader remembers the tag.
read_node_type(rd) ==
  IF NodeCursorAt(rd, "tag")
  THEN Ok([node_type |-> rd.nodes[rd.node + 1].node_type,
           is_array |-> rd.nodes[rd.node + 1].is_array,
           reader |-> [rd EXCEPT !.node = @ + 1,
                                 !.last_node_type =
                                    SomeNodeType(rd.nodes[rd.node + 1].node_type,
                                                 rd.nodes[rd.node + 1].is_array)]])
  ELSE Err(NodeTypeRead)

\* reader.read_node_identifier(): the identifier at the node cursor.
read_node_identifier(rd) ==
  IF NodeCursorAt(rd, "name")
  THEN Ok([name |-> rd.nodes[rd.node + 1].name,
           reader |-> [rd EXCEPT !.node = @ + 1]])
  ELSE Err(NodeIdentifierRead)

\* The bytes of a length-prefixed payload at the main cursor: a 4-byte
\* length L, then L bytes, the cursor moving on by L rounded up to 4.
ReadPayload(rd, len) ==
  IF len.kind # "Ok" THEN len
  ELSE Taken(len.value.reader, len.value.reader.dword, U32(len.value.bytes),
             [len.value.reader EXCEPT !.dword = @ + AlignUp(U32(len.value.bytes), 4)],
             EndOfStream)

\* reader.read_bytes()
read_bytes(rd) == ReadPayload(rd, read_exact(rd, 4, StringLengthRead))

\* The bytes of a string without the NUL that ends them.
StripNul(b) == IF b # <<>> /\ Last(b) = 0 THEN Front(b) ELSE b

\* reader.read_string(): the payload without its NUL; the model keeps the
\* bytes of the text.
read_string(rd) ==
  IF read_bytes(rd).kind # "Ok" THEN read_bytes(rd)
  ELSE Ok([bytes |-> StripNul(read_bytes(rd).value.bytes),
           reader |-> read_bytes(rd).value.reader])

(***************************************************************************)
(* Deserializer: maps.  A struct or a map is deserialized by               *)
(* deserialize_map, whose visitor takes key/value pairs from the map       *)
(* access: each key through deserialize_identifier, each value through     *)
(* deserialize_any.  The visitor of deserialize_any takes whatever the     *)
(* node holds: every element of a sequence and every value of a map        *)
(* through deserialize_any again.                                          *)
(***************************************************************************)
AnyType == [k |-> "any"]

IdentifierType == [k |-> "identifier"]

MapType == [k |-> "map"]

\* A call that waits for its visitor or its seed; depth is the depth of the
\* node stack when the call was made.
CallFrame(fn, t) ==
  [fn |-> fn, old_read_mode |-> read_mode, len |-> 0, take |-> 0, index |-> 0,
   elem |-> AnyType, node_type |-> t, depth |-> Len(node_stack)]

\* visitor.visit_map(..): the visitor is about to ask for the first key.
VisitMap(rd) ==
  /\ first_struct' = FALSE
  /\ frames' = Append(frames, CallFrame("deserialize_map", "NodeStart"))
  /\ reader' = rd
  /\ pc' = "map"
  /\ UNCHANGED <<result, read_mode, node_stack, ty, visited>>

\* A deserialize_map without the sanity check.
FirstStructUnchecked(r, id) ==
  IF r.kind # "Ok" THEN Fail(r, reader)
  ELSE IF id.kind # "Ok" THEN Fail(id, r.value.reader)
  ELSE VisitMap(id.value.reader)

\* The sanity check of deserialize_map on the node read_node_with_name has
\* read: r is the tag and id the identifier read after it.
FirstStruct(r, id) ==
  IF r.kind # "Ok" THEN Fail(r, reader)
  ELSE IF id.kind # "Ok" THEN Fail(id, r.value.reader)
  ELSE IF r.value.node_type # "NodeStart"
  THEN Fail(Err(TypeMismatch("NodeStart", r.value.node_type)), id.value.reader)
  ELSE VisitMap(id.value.reader)

\* read_node_with_name, then the sanity check
ReadFirstStruct(r) ==
  FirstStruct(r, IF r.kind = "Ok" THEN read_node_identifier(r.value.reader) ELSE r)

\* Deserializer::deserialize_map (and deserialize_struct, which calls it),
\* up to the call of the visitor
DeserializeMap ==
  /\ Calling("map")
  /\ IF first_struct THEN ReadFirstStruct(read_node_type(reader)) ELSE VisitMap(reader)
  /\ UNCHANGED <<op, valuevars, xmlvars, nodevars>>

\* The visitor of a map is about to call next_key_seed.
AtMap == pc = "map" /\ op = "deserialize" /\ frames # <<>>

\* next_key_seed returns Ok(None): the visitor has its map and returns, and
\* so does deserialize_map.
EndOfMap(rd) ==
  /\ reader' = rd
  /\ frames' = Front(frames)
  /\ pc' = ReturnPc(Front(frames))
  /\ IF Front(frames) = <<>> THEN result' = Ok(visited) ELSE UNCHANGED result
  /\ UNCHANGED <<read_mode, node_stack, first_struct, ty, visited>>

\* next_key_seed calls the seed of the key, which deserializes an
\* identifier.
KeySeed(t, rd) ==
  /\ reader' = rd
  /\ frames' = Append(frames, CallFrame("next_key_seed", t))
  /\ ty' = IdentifierType
  /\ pc' = "call"
  /\ UNCHANGED <<result, read_mode, node_stack, first_struct, visited>>

NextKey(r) ==
  IF r.kind # "Ok" THEN Fail(r, reader)
  ELSE IF r.value.node_type \in {"NodeEnd", "FileEnd"} THEN EndOfMap(r.value.reader)
  ELSE KeySeed(r.value.node_type, r.value.reader)

\* Map::next_key_seed, up to the call of the seed
NextKeySeed ==
  /\ AtMap
  /\ NextKey(read_node_type(reader))
  /\ UNCHANGED <<op, valuevars, xmlvars, nodevars>>

\* visitor.visit_string(name) of deserialize_identifier
VisitIdentifier(t, r) ==
  IF r.kind # "Ok" THEN Fail(r, reader)
  ELSE /\ first_struct' = IF t = "NodeStart" THEN FALSE ELSE first_struct
       /\ visited' = Append(visited,
                        [m |-> "string",
                         value |-> IF t = "Attribute" THEN <<"attr_", r.value.name>>
                                   ELSE <<r.value.name>>])
       /\ reader' = r.value.reader
       /\ pc' = ReturnPc(frames)
       /\ IF frames = <<>>
          THEN result' = Ok(visited')
          ELSE UNCHANGED result
       /\ UNCHANGED <<read_mode, node_stack, ty, frames>>

\* Deserializer::deserialize_identifier
DeserializeIdentifier ==
  /\ Calling("identifier")
  /\ IF ~reader.last_node_type.some THEN Fail(Err(InvalidState), reader)
     ELSE VisitIdentifier(reader.last_node_type.node_type, read_node_identifier(reader))
  /\ UNCHANGED <<op, valuevars, xmlvars, nodevars>>

\* Map::next_key_seed, after the seed: self.de.node_stack.push(node_type);
\* Ok(key).  The method pushes the type alone on a stack of (type, flag)
\* pairs: the flag of the entry is either one.
NextKeySeedReturn ==
  /\ pc = "key" /\ op = "deserialize" /\ frames # <<>>
  /\ \E a \in BOOLEAN :
       node_stack' = Append(node_stack, [node_type |-> Last(frames).node_type,
                                         is_array |-> a])
  /\ frames' = Front(frames)
  /\ pc' = "pair"
  /\ UNCHANGED <<op, result, valuevars, xmlvars, nodevars>>
  /\ UNCHANGED <<read_mode, first_struct, reader, ty, visited>>

\* Map::next_value_seed, up to the call of the seed: the visitor has a key
\* and asks for its value, which the seed takes through deserialize_any.
NextValueSeed ==
  /\ pc = "pair" /\ op = "deserialize" /\ frames # <<>>
  /\ frames' = Append(frames, CallFrame("next_value_seed", "NodeStart"))
  /\ ty' = AnyType
  /\ pc' = "call"
  /\ UNCHANGED <<op, result, valuevars, xmlvars, nodevars>>
  /\ UNCHANGED <<read_mode, node_stack, first_struct, reader, visited>>

\* self.de.node_stack.pop()
Popped == IF node_stack = <<>> THEN NoNodeType
          ELSE SomeNodeType(Last(node_stack).node_type, Last(node_stack).is_array)

\* A next_value_seed that pops nothing.
KeptStack == node_stack

PoppedStack == IF node_stack = <<>> THEN node_stack ELSE Front(node_stack)

\* Ok(value) of next_value_seed: the visitor asks for the next key.
ValueReturned(rd) ==
  /\ reader' = rd
  /\ frames' = Front(frames)
  /\ pc' = "map"
  /\ UNCHANGED result

\* A next_value_seed that reads the tag after the value and takes whatever
\* it is.
ConsumeAnyTag(r) ==
  IF r.kind # "Ok" THEN pc' = "done" /\ result' = r /\ UNCHANGED <<reader, frames>>
  ELSE ValueReturned(r.value.reader)

\* The tag after the value of a typed node must be NodeEnd.
ConsumeNodeEnd(r) ==
  IF r.kind # "Ok" THEN pc' = "done" /\ result' = r /\ UNCHANGED <<reader, frames>>
  ELSE IF r.value.node_type # "NodeEnd"
  THEN /\ pc' = "done"
       /\ result' = Err(TypeMismatch("NodeEnd", r.value.node_type))
       /\ reader' = r.value.reader
       /\ UNCHANGED frames
  ELSE ValueReturned(r.value.reader)

\* Map::next_value_seed, after the seed
NextValueSeedReturn ==
  /\ pc = "value" /\ op = "deserialize" /\ frames # <<>>
  /\ node_stack' = PoppedStack
  /\ IF Popped.some /\ Popped.node_type \notin {"Attribute", "NodeStart"}
     THEN ConsumeNodeEnd(read_node_type(reader))
     ELSE ValueReturned(reader)
  /\ UNCHANGED <<op, valuevars, xmlvars, nodevars>>
  /\ UNCHANGED <<read_mode, first_struct, ty, visited>>

\* A method that calls another one on the same visitor.
CallNext(t, rd) ==
  /\ ty' = t
  /\ reader' = rd
  /\ pc' = "call"
  /\ UNCHANGED <<result, read_mode, first_struct, frames, visited>>

\* The method deserialize_any calls for a node of type t.  Every other type
\* but Ip4 and NodeEnd goes to Custom, which is outside the model.
AnyMethod ==
  [Attribute |-> Prim("string"), String |-> Prim("string"), Binary |-> Prim("bytes"),
   U8 |-> Prim("u8"), U16 |-> Prim("u16"), U32 |-> Prim("u32"), U64 |-> Prim("u64"),
   S8 |-> Prim("i8"), S16 |-> Prim("i16"), S32 |-> Prim("i32"), S64 |-> Prim("i64"),
   Boolean |-> Prim("bool"), NodeStart |-> MapType]

\* The Ip4 branch: self.set_read_mode(ReadMode::Array);
\* visitor.visit_enum(Custom::new(self, node_type)): the visitor takes the
\* four bytes of the address, each through deserialize_u8.
VisitIp4 ==
  /\ read_mode' = "Array"
  /\ frames' = Append(frames, [fn |-> "deserialize_any", old_read_mode |-> read_mode,
                               len |-> 4, take |-> 4, index |-> 0, elem |-> Prim("u8")])
  /\ pc' = "access"
  /\ UNCHANGED <<result, first_struct, reader, ty, visited>>

\* The NodeEnd branch: the tag is read and deserialize_any starts again.
SkipNodeEnd(r) ==
  IF r.kind # "Ok"
  THEN /\ pc' = "done"
       /\ result' = r
       /\ UNCHANGED <<read_mode, first_struct, reader, ty, frames, visited>>
  ELSE CallNext(AnyType, r.value.reader)

\* deserialize_any once it has the node (node_type, is_array)
AnyOf(n) ==
  IF n.is_array /\ read_mode # "Array" THEN CallNext(SeqOf(AnyType), reader)
  ELSE IF n.node_type = "Ip4" THEN VisitIp4
  ELSE IF n.node_type = "NodeEnd" THEN SkipNodeEnd(read_node_type(reader))
  ELSE /\ n.node_type \in DOMAIN AnyMethod
       /\ CallNext(AnyMethod[n.node_type], reader)

\* self.reader.peek_node_type()?; self.node_stack.push(node)
PeekAndPush(r) ==
  IF r.kind # "Ok" THEN Fail(r, reader)
  ELSE node_stack' = <<r.value>> /\ AnyOf(r.value)

\* Deserializer::deserialize_any (and deserialize_ignored_any, which calls
\* it), up to the call of the method or of the visitor
DeserializeAny ==
  /\ Calling("any")
  /\ IF node_stack # <<>>
     THEN node_stack' = node_stack /\ AnyOf(Last(node_stack))
     ELSE PeekAndPush(peek_node_type(reader))
  /\ UNCHANGED <<op, valuevars, xmlvars, nodevars>>

\* Deserializer::deserialize_any, after the visitor of the Ip4 branch:
\* self.read_mode = old_read_mode
DeserializeAnyReturn == VisitorReturns("deserialize_any", FALSE)

VisitPayload(m, r) ==
  IF r.kind # "Ok" THEN Fail(r, reader)
  ELSE Visit(m, r.value.bytes, r.value.reader)

\* Deserializer::deserialize_string
DeserializeString ==
  /\ Calling("string")
  /\ IF read_mode = "Key" THEN CallNext(IdentifierType, reader) /\ UNCHANGED node_stack
     ELSE VisitPayload("string", read_string(reader))
  /\ UNCHANGED <<op, valuevars, xmlvars, nodevars>>

\* Deserializer::deserialize_bytes
DeserializeBytes ==
  /\ Calling("bytes")
  /\ VisitPayload("bytes", read_bytes(reader))
  /\ UNCHANGED <<op, valuevars, xmlvars, nodevars>>

NextMap ==
  \/ NextDe
  \/ DeserializeMap \/ NextKeySeed \/ DeserializeIdentifier \/ NextKeySeedReturn
  \/ NextValueSeed \/ NextValueSeedReturn
  \/ DeserializeAny \/ DeserializeAnyReturn \/ DeserializeString \/ DeserializeBytes

(***************************************************************************)
(* The documents the Deserializer of a map starts with: the node section   *)
(* of an element with attributes, typed children and nested elements, cut  *)
(* short at any token, with or without a FileEnd after the cut.            *)
(***************************************************************************)
MaxDepth == 2

NodeEnd == Tag("NodeEnd", FALSE)

FileEnd == Tag("FileEnd", FALSE)

\* A typed node: its tag, its identifier and its NodeEnd.
Leaf(t, a, name) == <<Tag(t, a), Name(name), NodeEnd>>

Attribute(name) == <<Tag("Attribute", FALSE), Name(name)>>

Element(name, content) == <<Tag("NodeStart", FALSE), Name(name)>> \o content \o <<NodeEnd>>

LeafNodes ==
  {Leaf(t, FALSE, "a") : t \in {"U8", "S32", "Boolean", "String", "Binary", "Ip4"}}
    \cup {Leaf("U8", TRUE, "a"), Leaf("Ip4", TRUE, "a")}

\* A typed node whose NodeEnd is missing.
OpenLeaf == <<Tag("U8", FALSE), Name("a")>>

RECURSIVE Contents(_)
Contents(depth) ==
  {<<>>, Attribute("k"), OpenLeaf \o Leaf("U8", FALSE, "b")}
    \cup LeafNodes
    \cup {Attribute("k") \o n : n \in LeafNodes}
    \cup {Leaf("U8", FALSE, "b") \o n : n \in LeafNodes}
    \cup (IF depth = 0 THEN {}
          ELSE {Element("c", c) \o d : c \in Contents(depth - 1),
                                       d \in {<<>>, Leaf("U8", FALSE, "b")}})

Prefixes(s) == {SubSeq(s, 1, n) : n \in 0..Len(s)}

MapDocuments ==
  UNION {{p \o e : p \in Prefixes(Element("r", c) \o <<FileEnd>>),
                   e \in {<<>>, <<FileEnd>>}} : c \in Contents(MaxDepth - 1)}
    \cup {Leaf("U8", FALSE, "a") \o <<FileEnd>>, <<NodeEnd, FileEnd>>}

\* Data buffers: nothing, one or two values of one byte, a text or an array
\* of one byte after a byte, and four bytes of an address.
MapData ==
  {<<>>, <<1, 0, 0, 0>>, <<2, 0, 0, 0>>, <<1, 0, 0, 0, 1, 0, 0, 0>>,
   <<0, 0, 0, 2, 65, 0, 0, 0>>, <<0, 0, 0, 1, 1, 0, 0, 0>>,
   <<1, 0, 0, 0, 0, 0, 0, 2, 65, 0, 0, 0>>, <<0, 0, 0, 4, 10, 0, 0, 1>>}

\* Deserializer::new(input), and the type from_bytes deserializes: a struct
\* or a map, or a type that takes any value.
InitDeMap ==
  /\ pc = "call"
  /\ op = "deserialize"
  /\ result = NoResult
  /\ ValueIdle
  /\ XmlIdle
  /\ NodeIdle
  /\ read_mode = "Single"
  /\ node_stack = <<>>
  /\ first_struct = TRUE
  /\ frames = <<>>
  /\ visited = <<>>
  /\ ty \in {MapType, AnyType}
  /\ \E doc \in MapDocuments, d \in MapData : reader = NewReader(doc, d)

InitMap == InitDe \/ InitDeMap

SpecMap == InitMap /\ [][NextMap]_vars

(***************************************************************************)
(* Claims about the map access.                                            *)
(***************************************************************************)
\* next_key_seed reads the tag t.
KeyTagRead(t) ==
  /\ AtMap
  /\ read_node_type(reader).kind = "Ok"
  /\ read_node_type(reader).value.node_type = t
  /\ reader'.node = reader.node + 1

\* C23: a FileEnd that Map::next_key_seed reads while the node stack is not
\* empty is rejected with an error; it is accepted as the end of the map
\* only when the node stack is empty.
C23_FileEndNeedsEmptyStack ==
  [][KeyTagRead("FileEnd") /\ node_stack # <<>>
       => pc' = "done" /\ result'.kind = "Err"]_vars

\* What holds: FileEnd ends the map like NodeEnd, whatever the node stack
\* holds, and no error is returned.
FileEndEndsMap ==
  [][KeyTagRead("FileEnd")
       => /\ frames' = Front(frames)
          /\ node_stack' = node_stack
          /\ result'.kind # "Err"]_vars

\* The map of a nested element has ended at a FileEnd, with the element
\* still on the node stack, and its value is returned to next_value_seed.
FileEndAcceptedInside ==
  /\ pc = "value"
  /\ reader.last_node_type = SomeNodeType("FileEnd", FALSE)
  /\ node_stack # <<>>
  /\ result = NoResult

\* The seed of a value has returned to next_value_seed.
ValueSeedReturned == pc = "value" /\ op = "deserialize" /\ frames # <<>>

\* What next_value_seed does with the tag r it reads after the value.
NodeEndChecked(r) ==
  IF r.kind # "Ok" THEN pc' = "done" /\ result' = r /\ reader' = reader
  ELSE /\ reader'.node = reader.node + 1
       /\ IF r.value.node_type = "NodeEnd"
          THEN pc' = "map" /\ result' = result
          ELSE pc' = "done" /\ result' = Err(TypeMismatch("NodeEnd", r.value.node_type))

\* C24: after the value of a typed node (one that is neither Attribute nor
\* NodeStart) Map::next_value_seed reads the next tag and returns
\* TypeMismatch(NodeEnd, got) unless that tag is NodeEnd; after the value of
\* an Attribute or a NodeStart it consumes no tag.
C24_NodeEndAfterTypedValue ==
  [][ValueSeedReturned /\ Popped.some
       => IF Popped.node_type \in {"Attribute", "NodeStart"}
          THEN reader' = reader /\ pc' = "map" /\ result' = result
          ELSE NodeEndChecked(read_node_type(reader))]_vars

\* The value of a typed node has been read and its NodeEnd consumed; the
\* visitor asks for the next key.
C24_Witness ==
  /\ pc = "map"
  /\ reader.last_node_type = SomeNodeType("NodeEnd", FALSE)
  /\ visited # <<>>
  /\ Last(visited).m = "u8"

\* The tag after the value of a typed node was another typed node.
NodeEndMissing == result = Err(TypeMismatch("NodeEnd", "U8"))

\* The value of an attribute has been read; no tag has been consumed after
\* it.
NoTagAfterAttribute ==
  /\ pc = "map"
  /\ reader.last_node_type = SomeNodeType("Attribute", FALSE)
  /\ visited # <<>>
  /\ Last(visited).m = "string"
  /\ Len(Last(visited).value) = 1
  /\ Last(visited).value[1] = 65

(***************************************************************************)
(* Claims about the read mode.                                             *)
(***************************************************************************)
\* C27: deserialize_seq, deserialize_tuple, deserialize_tuple_struct and the
\* Ip4 branch of deserialize_any leave read_mode, when they return
\* successfully, at the value it had when they were entered; so after any
\* successful read, nested arrays included, the mode of the top level is
\* Single.
C27_ReadModeRestored ==
  [][/\ ArrayReadCompletes(ArrayMethods \cup {"deserialize_any"})
          => read_mode' = Last(frames).old_read_mode
     /\ pc' = "done" /\ result'.kind = "Ok" => read_mode' = "Single"]_vars

\* The Ip4 branch has returned to next_value_seed with the four bytes of
\* the address, and the mode is Single again.
C27_Witness ==
  /\ pc = "value"
  /\ node_stack # <<>>
  /\ Last(node_stack) = [node_type |-> "Ip4", is_array |-> FALSE]
  /\ Len(visited) >= 4
  /\ Last(visited).m = "u8"
  /\ read_mode = "Single"

\* An array of Ip4 has been read: the Ip4 branch inside deserialize_seq.
Ip4InsideArray ==
  /\ pc = "value"
  /\ node_stack # <<>>
  /\ Last(node_stack) = [node_type |-> "Ip4", is_array |-> TRUE]
  /\ Len(visited) >= 4
  /\ Last(visited).m = "u8"
  /\ read_mode = "Single"

(***************************************************************************)
(* Claims about the node stack.                                            *)
(***************************************************************************)
\* C28: each next_key_seed that returns Some pushes exactly one entry on the
\* node stack and the next_value_seed that follows pops exactly one, so the
\* depth of the stack after a complete key/value pair, nested structs
\* included, is the depth before it; a next_key_seed that returns None on
\* NodeEnd or FileEnd leaves the stack unchanged.
C28_PairsKeepDepth ==
  [][/\ pc = "key" => /\ Len(node_stack) = Last(frames).depth
                      /\ Len(node_stack') = Len(node_stack) + 1
     /\ pc = "value" => /\ Len(node_stack) = Last(frames).depth
                        /\ Len(node_stack') = Len(node_stack) - 1
     /\ pc' = "map" => Len(node_stack') = Last(frames').depth
     /\ AtMap /\ frames' = Front(frames) => node_stack' = node_stack]_vars

\* The pair of a nested element, with a pair inside it, is complete and the
\* visitor of the outer map asks for the next key.
C28_Witness ==
  /\ pc = "map"
  /\ Len(frames) = 1
  /\ Len(visited) >= 3
  /\ visited[1].m = "string"
  /\ visited[1].value = <<"c">>
  /\ Len(node_stack) = Last(frames).depth

(***************************************************************************)
(* Claims about deserialize_map.                                           *)
(***************************************************************************)
\* read_node_with_name succeeds on the reader: a tag, then an identifier.
NodeWithName ==
  /\ read_node_type(reader).kind = "Ok"
  /\ read_node_identifier(read_node_type(reader).value.reader).kind = "Ok"

\* C30: deserialize_map consumes a node tag and its identifier only while
\* first_struct is true, and then fails with TypeMismatch(NodeStart, got)
\* if the tag is not NodeStart; once first_struct is false it consumes no
\* node event before it visits the map; first_struct never becomes true
\* again.
C30_FirstStructOnly ==
  [][/\ Calling("map") /\ first_struct /\ NodeWithName
          => /\ reader'.node = reader.node + 2
             /\ IF read_node_type(reader).value.node_type = "NodeStart"
                THEN pc' = "map" /\ ~first_struct'
                ELSE /\ pc' = "done"
                     /\ result' = Err(TypeMismatch("NodeStart",
                                        read_node_type(reader).value.node_type))
     /\ Calling("map") /\ ~first_struct => reader' = reader /\ pc' = "map"
     /\ ~first_struct => ~first_struct']_vars

\* The first node of the document is a typed node: deserialize_map has
\* consumed its tag and its identifier and has failed.
C30_Witness ==
  /\ result = Err(TypeMismatch("NodeStart", "U8"))
  /\ reader.node = 2
  /\ first_struct

\* The map of a nested element is visited: its NodeStart and name were read
\* by next_key_seed and deserialize_identifier, none by deserialize_map.
NestedMapVisited ==
  /\ pc = "map"
  /\ Len(frames) = 3
  /\ ~first_struct
  /\ reader.last_node_type = SomeNodeType("NodeStart", FALSE)
  /\ reader.node = 4

(***************************************************************************)
(* Claims about the loop of as_node_collection.  The loop runs until it    *)
(* returns: the specification with fairness takes every step that is       *)
(* enabled.                                                                *)
(***************************************************************************)
\* No reader yet.
InitXmlLive ==
  /\ pc = "new"
  /\ op = "as_node_collection"
  /\ result = NoResult
  /\ ValueIdle
  /\ DeIdle
  /\ NodeIdle
  /\ XmlIdle

\* TextXmlReader::new(input): the reader is given its input.
TextXmlReaderNew ==
  /\ pc = "new"
  /\ pc' = "call"
  /\ document' \in Documents
  /\ UNCHANGED <<op, result, valuevars, devars, nodevars, xml_reader, encoding, stack>>

NextXmlLive == TextXmlReaderNew \/ NextXml

\* One turn of the loop, seen from outside: the next event is read, or the
\* call returns (at Eof without reading).  Every step of NextXml is one.
LoopTurn ==
  /\ pc = "call"
  /\ \/ pc' = "call" /\ xml_reader' = xml_reader + 1
     \/ pc' = "done" /\ xml_reader' \in {xml_reader, xml_reader + 1}

\* The reader is given its input, and the loop goes on until it returns.
SpecXmlLive ==
  /\ InitXmlLive
  /\ [][NextXmlLive]_vars
  /\ WF_vars(TextXmlReaderNew)
  /\ WF_<<pc, xml_reader>>(LoopTurn)

\* The number of Start events among the first n events of the document that
\* no End has matched.
RECURSIVE UnmatchedStarts(_)
UnmatchedStarts(n) ==
  IF n = 0 THEN 0
  ELSE IF document[n].kind = "Start" THEN UnmatchedStarts(n - 1) + 1
  ELSE IF document[n].kind = "End" /\ UnmatchedStarts(n - 1) > 0
  THEN UnmatchedStarts(n - 1) - 1
  ELSE UnmatchedStarts(n - 1)

\* The stack is as deep as the Start events read so far are unmatched.
DepthIsUnmatchedStarts ==
  pc = "call" => Len(stack) = UnmatchedStarts(xml_reader)

\* The loop reads the End that empties the stack.
RootEnd == Reading("End") /\ Len(stack) = 1

\* Ok(Some(root)) is returned at the End that empties the stack, and only
\* there, and that End is the last event read.
RootAtRootEnd ==
  /\ RootEnd => /\ pc' = "done"
                /\ result' = Ok(Last(stack).collection)
                /\ xml_reader' = xml_reader + 1
  /\ pc = "call" /\ pc' = "done" /\ result'.kind = "Ok" => RootEnd

\* No End of the document closes the element that the first unmatched
\* Start opened.
NoRootEnd ==
  \A n \in 1..Len(document) :
    ~(document[n].kind = "End" /\ UnmatchedStarts(n - 1) = 1)

\* quick_xml reads every event of the document.
NoReadError == \A n \in 1..Len(document) : document[n].kind # "Error"

\* C29 as stated: the depth of the stack is the number of Start events not
\* yet matched by an End; as_node_collection returns Ok(Some(root)) at
\* exactly the End that empties the stack and consumes no event after it;
\* on every finite event stream without such an End it terminates with
\* Ok(None) at Eof.
C29_OkNoneWithoutRootEnd ==
  /\ []DepthIsUnmatchedStarts
  /\ [][RootAtRootEnd]_vars
  /\ (pc = "call" /\ NoRootEnd /\ NoReadError ~> pc = "done" /\ result = OkNone)

\* C29, amended: the depth of the stack is the number of Start events not
\* yet matched by an End; as_node_collection returns Ok(Some(root)) at
\* exactly the End that empties the stack and consumes no event after it;
\* on every finite event stream it terminates, and without such an End it
\* returns Ok(None) when it reads Eof, unless an event before Eof fails
\* (handle_start, handle_text, the encoding label, the asserts on an empty
\* element, the read itself), which ends the loop with that failure.
C29_OkNoneAtEof ==
  /\ []DepthIsUnmatchedStarts
  /\ [][RootAtRootEnd]_vars
  /\ (pc = "call" ~> pc = "done")
  /\ [][/\ Reading("Eof") => pc' = "done" /\ result' = OkNone
        /\ pc = "call" /\ pc' = "done" /\ ~Reading("Eof") /\ ~RootEnd
             => result'.kind \in {"Err", "Panic"}]_vars

\* An element that is never closed: Eof is read with the element on the
\* stack and Ok(None) is returned.
C29_Witness ==
  /\ pc = "done"
  /\ result = OkNone
  /\ NoRootEnd
  /\ xml_reader = Len(document)
  /\ Len(stack) = UnmatchedStarts(xml_reader)
  /\ Len(stack) >= 1

\* No End closes the root and every event is read, yet the loop has ended
\* with an error before Eof.
ErrorBeforeEof ==
  /\ pc = "done"
  /\ result.kind = "Err"
  /\ NoRootEnd
  /\ NoReadError


=============================================================================
